---- MODULE Spec2Model ----
(***************************************************************************)
(* Model of the mock metadata API: the in-memory, owner/account scoped     *)
(* DataStore (mock_api/data/store.py), the route handlers in front of it   *)
(* (mock_api/routes/*.py) and the Clerk token verification with its JWKS   *)
(* cache (mock_api/auth/clerk.py).                                         *)
(***************************************************************************)
EXTENDS Integers, Sequences, FiniteSets, TLC

VARIABLES
    fixtures,          \* content of fixtures/data.json, read by load_fixtures
    hashSeed,          \* the process's str hash seed: fixes set iteration order
    _data_store,       \* store.py: global _data_store (None or a DataStore)
    request,           \* the last call on the store or request to a route
    response,          \* what that call returned, what that route answered
    served,            \* number of calls and requests answered
    environ,           \* os.environ: REQUIRE_AUTH, CLERK_JWKS_URL, CLERK_ISSUER
    _jwks_cache,       \* clerk.py: global _jwks_cache
    _jwks_cache_time,  \* clerk.py: global _jwks_cache_time
    clock,             \* time.time(), in seconds
    jwks_remote,       \* what the identity provider's JWKS endpoint answers now
    fetches,           \* number of httpx.get calls issued to the JWKS endpoint
    auth_result,       \* the last result of verify_token / get_current_user
    threads,           \* the threads inside fetch_jwks or get_data_store: line
                       \* reached and locals
    fetch_log,         \* the (key set, time) pairs the requests so far obtained
    heap               \* the DataStore objects get_data_store created, and the
                       \* one the global _data_store names

vars == <<fixtures, hashSeed, _data_store, request, response, served,
          environ, _jwks_cache,
          _jwks_cache_time, clock, jwks_remote, fetches, auth_result,
          threads, fetch_log, heap>>

store_vars == <<fixtures, hashSeed, _data_store, request, response, served>>
auth_vars == <<environ, _jwks_cache, _jwks_cache_time, clock, jwks_remote,
               fetches, auth_result>>
thread_vars == <<threads, fetch_log, heap>>

-----------------------------------------------------------------------------
(* Bounds of the model *)

\* largest number of records in a generated fixtures file
MaxRecords == 2
\* hash seeds 0..MaxHashSeed are explored
MaxHashSeed == 1
\* limits 0..MaxLimit (and the default limit) are explored
MaxLimit == 2
\* offsets 0..MaxOffset are explored
MaxOffset == 3
\* at most MaxRequests calls and requests are answered
MaxRequests == 1

-----------------------------------------------------------------------------
(* Python values *)

\* Python's None where a str is expected (Optional[str])
None == "<None>"
\* Python's None where an object is expected (Optional[Type], Optional[DataStore])
NoneObj == [none |-> TRUE]

\* truthiness of an Optional[str]: None and "" are falsy
Truthy(s) == s # None /\ s # ""

Min(a, b) == IF a < b THEN a ELSE b
Max(a, b) == IF a > b THEN a ELSE b

\* clamp of one slice index against a sequence of length n
SliceIndex(i, n) == IF i < 0 THEN Max(i + n, 0) ELSE Min(i, n)

\* mutant: the slice s[offset:limit], its end taken for a count
PySliceEndAtLimit(s, lo, hi) ==
    SubSeq(s, SliceIndex(lo, Len(s)) + 1, SliceIndex(hi - lo, Len(s)))

\* s[lo:hi]
PySlice(s, lo, hi) ==
    SubSeq(s, SliceIndex(lo, Len(s)) + 1, SliceIndex(hi, Len(s)))

\* dict.get(key, default)
DictGet(d, key, default) == IF key \in DOMAIN d THEN d[key] ELSE default

\* d[key] = value
DictPut(d, key, value) ==
    [k \in DOMAIN d \cup {key} |-> IF k = key THEN value ELSE d[k]]

\* mutant: d[key] = [value], which forgets what the list held
DictOverwrite(d, key, value) == DictPut(d, key, <<value>>)

\* defaultdict(list): d[key].append(value)
DictAppend(d, key, value) ==
    [k \in DOMAIN d \cup {key} |->
        IF k = key THEN Append(DictGet(d, key, <<>>), value) ELSE d[k]]

\* mutant: d[key] on a defaultdict(list), which stores [] under a missing key
DictAfterGetItem(d, key) == IF key \in DOMAIN d THEN d ELSE DictPut(d, key, <<>>)

\* d.get(key, default), on a dict or a defaultdict, as it leaves d: get never
\* calls the default factory
DictAfterGet(d, key) == d

\* the empty dict
EmptyDict == [k \in {} |-> <<>>]

\* set(list)
ToSet(s) == {s[i] : i \in DOMAIN s}

\* getattr(obj, name, default)
GetAttr(obj, name, default) == IF name \in DOMAIN obj THEN obj[name] ELSE default

-----------------------------------------------------------------------------
(* Identifiers *)

TypeIds == <<"type_1", "type_2", "type_3", "type_4">>
ValidatorIds == <<"val_1", "val_2", "val_3", "val_4">>
FieldIds == <<"field_1", "field_2", "field_3", "field_4", "field_5">>
ObjectIds == <<"obj_1", "obj_2", "obj_3">>

\* ids a caller may ask for: the ones above and one that is never loaded
AskedTypeIds == ToSet(TypeIds) \cup {"type_nonexistent"}
AskedValidatorIds == ToSet(ValidatorIds) \cup {"val_nonexistent"}
AskedFieldIds == ToSet(FieldIds) \cup {"field_nonexistent"}
AskedObjectIds == ToSet(ObjectIds) \cup {"obj_nonexistent"}

OwnerIds == {"user_test123", "user_other456"}
AccountIds == {"acct_test123", "acct_other456"}
\* identities a request may carry
CallerUserIds == OwnerIds \cup {"user_nonexistent"}
CallerAccountIds == AccountIds \cup {"acct_nonexistent"}
Callers == [user_id : CallerUserIds, account_id : CallerAccountIds]

\* namespaces of generated Field/Object records, and the ones a request may name
Namespaces == {"", "user"}
AskedNamespaces == {None, "", "user", "nonexistent"}

\* the trailing number of an id
IdNum ==
    [type_1 |-> 1, type_2 |-> 2, type_3 |-> 3, type_4 |-> 4,
     val_1 |-> 1, val_2 |-> 2, val_3 |-> 3, val_4 |-> 4,
     field_1 |-> 1, field_2 |-> 2, field_3 |-> 3, field_4 |-> 4, field_5 |-> 5,
     obj_1 |-> 1, obj_2 |-> 2, obj_3 |-> 3]

-----------------------------------------------------------------------------
(* Set iteration.  `[self.types[tid] for tid in type_ids]` walks a set of  *)
(* str; the order is that of the hash table, a function of the process's   *)
(* hash seed, the same on every walk of an equal set built the same way.   *)

str_hash(s) == (IdNum[s] * (hashSeed + 1)) % 7

RECURSIVE set_iter(_)
set_iter(S) ==
    IF S = {} THEN <<>>
    ELSE LET first == CHOOSE x \in S : \A y \in S : str_hash(x) <= str_hash(y)
         IN  <<first>> \o set_iter(S \ {first})

-----------------------------------------------------------------------------
(* Models (mock_api/models): the attributes the store reads.  A Type and a *)
(* Validator carry no namespace attribute; a Field and an Object do.       *)

\* pydantic's validation of a raw record: its required attributes are there
Validates(raw_data) == {"id", "owner_id", "account_id"} \subseteq DOMAIN raw_data

\* a loop over data meets a record that raises ValidationError
Raises(data) == \E i \in DOMAIN data : ~Validates(data[i])

Type(type_data) ==
    [id |-> type_data.id, owner_id |-> type_data.owner_id,
     account_id |-> type_data.account_id]

Validator(validator_data) ==
    [id |-> validator_data.id, owner_id |-> validator_data.owner_id,
     account_id |-> validator_data.account_id]

Field(field_data) ==
    [id |-> field_data.id, owner_id |-> field_data.owner_id,
     account_id |-> field_data.account_id,
     namespace |-> GetAttr(field_data, "namespace", "")]

Object(object_data) ==
    [id |-> object_data.id, owner_id |-> object_data.owner_id,
     account_id |-> object_data.account_id,
     namespace |-> GetAttr(object_data, "namespace", "")]

\* the entity a raw record of kind becomes
ModelOf(kind, raw) ==
    CASE kind = "types" -> Type(raw)
      [] kind = "validators" -> Validator(raw)
      [] kind = "fields" -> Field(raw)
      [] kind = "objects" -> Object(raw)

-----------------------------------------------------------------------------
(* Fixtures files *)

\* the lists of n raw records with ids ids[1..n]; with_ns: records name a namespace
RawList(ids, n, with_ns) ==
    { [i \in 1..n |->
          IF with_ns
          THEN [id |-> ids[i], owner_id |-> f[i].owner_id,
                account_id |-> f[i].account_id, namespace |-> f[i].namespace]
          ELSE [id |-> ids[i], owner_id |-> f[i].owner_id,
                account_id |-> f[i].account_id]] :
      f \in [1..n -> [owner_id : OwnerIds, account_id : AccountIds,
                      namespace : IF with_ns THEN Namespaces ELSE {""}]] }

\* how MaxRecords records can be split over the four kinds
Splits ==
    { n \in [{"types", "validators", "fields", "objects"} -> 0..MaxRecords] :
        /\ n.types + n.validators + n.fields + n.objects <= MaxRecords
        /\ n.types <= Len(TypeIds) /\ n.validators <= Len(ValidatorIds)
        /\ n.fields <= Len(FieldIds) /\ n.objects <= Len(ObjectIds) }

GeneratedData ==
    UNION { [types : RawList(TypeIds, n.types, FALSE),
             validators : RawList(ValidatorIds, n.validators, FALSE),
             fields : RawList(FieldIds, n.fields, TRUE),
             objects : RawList(ObjectIds, n.objects, TRUE)] : n \in Splits }

\* one raw record of the shipped fixtures file
Raw(id, owner_id, account_id) ==
    [id |-> id, owner_id |-> owner_id, account_id |-> account_id]
RawNs(id, owner_id, account_id, namespace) ==
    [id |-> id, owner_id |-> owner_id, account_id |-> account_id,
     namespace |-> namespace]

\* fixtures/data.json as the tests describe it
FixtureData ==
    [types |->
        << Raw("type_1", "user_test123", "acct_test123"),
           Raw("type_2", "user_test123", "acct_test123"),
           Raw("type_3", "user_test123", "acct_test123"),
           Raw("type_4", "user_other456", "acct_other456") >>,
     validators |->
        << Raw("val_1", "user_test123", "acct_test123"),
           Raw("val_2", "user_test123", "acct_test123"),
           Raw("val_3", "user_test123", "acct_test123"),
           Raw("val_4", "user_other456", "acct_other456") >>,
     fields |->
        << RawNs("field_1", "user_test123", "acct_test123", "user"),
           RawNs("field_2", "user_test123", "acct_test123", "user"),
           RawNs("field_3", "user_test123", "acct_test123", "user"),
           RawNs("field_4", "user_test123", "acct_test123", "user"),
           RawNs("field_5", "user_other456", "acct_other456", "game") >>,
     objects |->
        << RawNs("obj_1", "user_test123", "acct_test123", "user"),
           RawNs("obj_2", "user_test123", "acct_test123", "user"),
           RawNs("obj_3", "user_other456", "acct_other456", "game") >>]

Datasets == GeneratedData \cup {FixtureData}

\* a raw record that lacks a required attribute
Malformed(raw_data) == [k \in DOMAIN raw_data \ {"owner_id"} |-> raw_data[k]]

\* the shipped fixtures file with one of its records malformed
BrokenDatasets ==
    { [FixtureData EXCEPT ![kind][i] = Malformed(@)] :
        kind \in {"types"}, i \in DOMAIN FixtureData.types }
    \cup { [FixtureData EXCEPT ![kind][i] = Malformed(@)] :
        kind \in {"validators"}, i \in DOMAIN FixtureData.validators }
    \cup { [FixtureData EXCEPT ![kind][i] = Malformed(@)] :
        kind \in {"fields"}, i \in DOMAIN FixtureData.fields }
    \cup { [FixtureData EXCEPT ![kind][i] = Malformed(@)] :
        kind \in {"objects"}, i \in DOMAIN FixtureData.objects }

-----------------------------------------------------------------------------
(* DataStore (mock_api/data/store.py) *)

\* DataStore.__init__
DataStore ==
    [types |-> EmptyDict, validators |-> EmptyDict,
     fields |-> EmptyDict, objects |-> EmptyDict,
     types_by_owner |-> EmptyDict, validators_by_owner |-> EmptyDict,
     fields_by_owner |-> EmptyDict, objects_by_owner |-> EmptyDict,
     types_by_account |-> EmptyDict, validators_by_account |-> EmptyDict,
     fields_by_account |-> EmptyDict, objects_by_account |-> EmptyDict]

\* the four loops of load_fixtures
RECURSIVE load_types(_, _)
load_types(self, data) ==
    IF data = <<>> \/ ~Validates(Head(data)) THEN self
    ELSE LET type_obj == Type(Head(data))
         IN  load_types(
                 [self EXCEPT
                     !.types = DictPut(@, type_obj.id, type_obj),
                     !.types_by_owner = DictAppend(@, type_obj.owner_id, type_obj.id),
                     !.types_by_account = DictAppend(@, type_obj.account_id, type_obj.id)],
                 Tail(data))

RECURSIVE load_validators(_, _)
load_validators(self, data) ==
    IF data = <<>> \/ ~Validates(Head(data)) THEN self
    ELSE LET validator_obj == Validator(Head(data))
         IN  load_validators(
                 [self EXCEPT
                     !.validators = DictPut(@, validator_obj.id, validator_obj),
                     !.validators_by_owner =
                         DictAppend(@, validator_obj.owner_id, validator_obj.id),
                     !.validators_by_account =
                         DictAppend(@, validator_obj.account_id, validator_obj.id)],
                 Tail(data))

RECURSIVE load_fields(_, _)
load_fields(self, data) ==
    IF data = <<>> \/ ~Validates(Head(data)) THEN self
    ELSE LET field_obj == Field(Head(data))
         IN  load_fields(
                 [self EXCEPT
                     !.fields = DictPut(@, field_obj.id, field_obj),
                     !.fields_by_owner = DictAppend(@, field_obj.owner_id, field_obj.id),
                     !.fields_by_account =
                         DictAppend(@, field_obj.account_id, field_obj.id)],
                 Tail(data))

RECURSIVE load_objects(_, _)
load_objects(self, data) ==
    IF data = <<>> \/ ~Validates(Head(data)) THEN self
    ELSE LET object_obj == Object(Head(data))
         IN  load_objects(
                 [self EXCEPT
                     !.objects = DictPut(@, object_obj.id, object_obj),
                     !.objects_by_owner =
                         DictAppend(@, object_obj.owner_id, object_obj.id),
                     !.objects_by_account =
                         DictAppend(@, object_obj.account_id, object_obj.id)],
                 Tail(data))

\* DataStore.load_fixtures: data.get("types", []) ... data.get("objects", []);
\* the store as the call leaves it, also when a record raised on the way
load_fixtures(self, data) ==
    LET types == DictGet(data, "types", <<>>)
        validators == DictGet(data, "validators", <<>>)
        fields == DictGet(data, "fields", <<>>)
        objects == DictGet(data, "objects", <<>>)
        typed == load_types(self, types)
        validated == load_validators(typed, validators)
        fielded == load_fields(validated, fields)
    IN  IF Raises(types) THEN typed
        ELSE IF Raises(validators) THEN validated
        ELSE IF Raises(fields) THEN fielded
        ELSE load_objects(fielded, objects)

\* DataStore.load_fixtures raises ValidationError
load_fixtures_raises(data) ==
    \/ Raises(DictGet(data, "types", <<>>))
    \/ Raises(DictGet(data, "validators", <<>>))
    \/ Raises(DictGet(data, "fields", <<>>))
    \/ Raises(DictGet(data, "objects", <<>>))

-----------------------------------------------------------------------------
(* Scoped queries *)

\* limit: int = 100
DefaultLimit == 100

\* mutant: the two scopes intersected
list_types_intersection(self, owner_id, account_id, limit, offset, namespace) ==
    LET type_ids == ToSet(DictGet(self.types_by_owner, owner_id, <<>>))
                        \cap ToSet(DictGet(self.types_by_account, account_id, <<>>))
        order == set_iter(type_ids)
        result == [i \in DOMAIN order |-> self.types[order[i]]]
    IN  PySlice(result, offset, offset + limit)

\* DataStore.list_types
list_types(self, owner_id, account_id, limit, offset, namespace) ==
    LET type_ids == ToSet(DictGet(self.types_by_owner, owner_id, <<>>))
                        \cup ToSet(DictGet(self.types_by_account, account_id, <<>>))
        order == set_iter(type_ids)
        result == [i \in DOMAIN order |-> self.types[order[i]]]
        filtered == IF Truthy(namespace)
                    THEN SelectSeq(result, LAMBDA t : GetAttr(t, "namespace", "") = namespace)
                    ELSE result
    IN  PySlice(filtered, offset, offset + limit)

\* mutant: owner and account must both match
get_type_both(self, type_id, owner_id, account_id) ==
    LET type_obj == DictGet(self.types, type_id, NoneObj)
    IN  IF type_obj = NoneObj THEN NoneObj
        ELSE IF type_obj.owner_id = owner_id /\ type_obj.account_id = account_id
             THEN type_obj
             ELSE NoneObj

\* DataStore.get_type
get_type(self, type_id, owner_id, account_id) ==
    LET type_obj == DictGet(self.types, type_id, NoneObj)
    IN  IF type_obj = NoneObj THEN NoneObj
        ELSE IF type_obj.owner_id = owner_id \/ type_obj.account_id = account_id
             THEN type_obj
             ELSE NoneObj

\* DataStore.list_validators
list_validators(self, owner_id, account_id, limit, offset, namespace) ==
    LET validator_ids == ToSet(DictGet(self.validators_by_owner, owner_id, <<>>))
                        \cup ToSet(DictGet(self.validators_by_account, account_id, <<>>))
        order == set_iter(validator_ids)
        result == [i \in DOMAIN order |-> self.validators[order[i]]]
        filtered == IF Truthy(namespace)
                    THEN SelectSeq(result, LAMBDA v : GetAttr(v, "namespace", "") = namespace)
                    ELSE result
    IN  PySlice(filtered, offset, offset + limit)

\* DataStore.get_validator
get_validator(self, validator_id, owner_id, account_id) ==
    LET validator_obj == DictGet(self.validators, validator_id, NoneObj)
    IN  IF validator_obj = NoneObj THEN NoneObj
        ELSE IF validator_obj.owner_id = owner_id \/ validator_obj.account_id = account_id
             THEN validator_obj
             ELSE NoneObj

\* mutant: the namespace is not looked at
list_fields_unfiltered(self, owner_id, account_id, limit, offset, namespace) ==
    LET field_ids == ToSet(DictGet(self.fields_by_owner, owner_id, <<>>))
                        \cup ToSet(DictGet(self.fields_by_account, account_id, <<>>))
        order == set_iter(field_ids)
        result == [i \in DOMAIN order |-> self.fields[order[i]]]
    IN  PySlice(result, offset, offset + limit)

\* DataStore.list_fields
list_fields(self, owner_id, account_id, limit, offset, namespace) ==
    LET field_ids == ToSet(DictGet(self.fields_by_owner, owner_id, <<>>))
                        \cup ToSet(DictGet(self.fields_by_account, account_id, <<>>))
        order == set_iter(field_ids)
        result == [i \in DOMAIN order |-> self.fields[order[i]]]
        filtered == IF Truthy(namespace)
                    THEN SelectSeq(result, LAMBDA f : f.namespace = namespace)
                    ELSE result
    IN  PySlice(filtered, offset, offset + limit)

\* DataStore.get_field
get_field(self, field_id, owner_id, account_id) ==
    LET field_obj == DictGet(self.fields, field_id, NoneObj)
    IN  IF field_obj = NoneObj THEN NoneObj
        ELSE IF field_obj.owner_id = owner_id \/ field_obj.account_id = account_id
             THEN field_obj
             ELSE NoneObj

\* mutant: a page runs one element into the next
list_objects_overlap(self, owner_id, account_id, limit, offset, namespace) ==
    LET object_ids == ToSet(DictGet(self.objects_by_owner, owner_id, <<>>))
                        \cup ToSet(DictGet(self.objects_by_account, account_id, <<>>))
        order == set_iter(object_ids)
        result == [i \in DOMAIN order |-> self.objects[order[i]]]
        filtered == IF Truthy(namespace)
                    THEN SelectSeq(result, LAMBDA o : o.namespace = namespace)
                    ELSE result
    IN  PySlice(filtered, offset, offset + limit + 1)

\* DataStore.list_objects
list_objects(self, owner_id, account_id, limit, offset, namespace) ==
    LET object_ids == ToSet(DictGet(self.objects_by_owner, owner_id, <<>>))
                        \cup ToSet(DictGet(self.objects_by_account, account_id, <<>>))
        order == set_iter(object_ids)
        result == [i \in DOMAIN order |-> self.objects[order[i]]]
        filtered == IF Truthy(namespace)
                    THEN SelectSeq(result, LAMBDA o : o.namespace = namespace)
                    ELSE result
    IN  PySlice(filtered, offset, offset + limit)

\* DataStore.get_object
get_object(self, object_id, owner_id, account_id) ==
    LET object_obj == DictGet(self.objects, object_id, NoneObj)
    IN  IF object_obj = NoneObj THEN NoneObj
        ELSE IF object_obj.owner_id = owner_id \/ object_obj.account_id = account_id
             THEN object_obj
             ELSE NoneObj

\* the index attributes of each kind
ByOwner == [types |-> "types_by_owner", validators |-> "validators_by_owner",
            fields |-> "fields_by_owner", objects |-> "objects_by_owner"]
ByAccount == [types |-> "types_by_account", validators |-> "validators_by_account",
              fields |-> "fields_by_account", objects |-> "objects_by_account"]

\* the store as list_types, list_validators, list_fields or list_objects leaves
\* it: the two indexes of the kind are read with get
after_list(self, kind, owner_id, account_id) ==
    [self EXCEPT ![ByOwner[kind]] = DictAfterGet(@, owner_id),
                 ![ByAccount[kind]] = DictAfterGet(@, account_id)]

\* the store as get_type, get_validator, get_field or get_object leaves it:
\* the primary map of the kind is read with get
after_get(self, kind, id) == [self EXCEPT ![kind] = DictAfterGet(@, id)]

\* get_data_store: the store the call returns, which it also leaves in _data_store
get_data_store ==
    IF _data_store = NoneObj THEN load_fixtures(DataStore, fixtures) ELSE _data_store

-----------------------------------------------------------------------------
(* Calls on the store and route handlers (mock_api/routes).  Every handler *)
(* depends on get_current_user, which hands it current_user, and on        *)
(* get_data_store, which hands it the global store: both are resolved      *)
(* before the handler runs.                                                *)

NoRequest == [op |-> "none"]
NoResponse == [status |-> 0]

\* Query(default=100, ge=1, le=1000) and Query(default=0, ge=0); else 422
ValidPage(limit, offset) == limit >= 1 /\ limit <= 1000 /\ offset >= 0

\* main.py: startup_event, which runs before any request is served
startup_event ==
    /\ served = 0
    /\ _data_store' = get_data_store
    /\ UNCHANGED <<fixtures, hashSeed, request, response, served, auth_vars, thread_vars>>

\* Depends(get_data_store): the store of a request about to be served
depends_get_data_store ==
    /\ served < MaxRequests
    /\ _data_store' = get_data_store
    /\ UNCHANGED <<fixtures, hashSeed, request, response, served, auth_vars, thread_vars>>

\* a call runs on the store get_data_store returned, while calls are served
Injected == _data_store # NoneObj /\ served < MaxRequests

\* a caller invokes DataStore.list_types on the global store
call_list_types(owner_id, account_id, limit, offset, namespace) ==
    /\ Injected
    /\ request' = [op |-> "list_types", owner_id |-> owner_id,
                   account_id |-> account_id, limit |-> limit, offset |-> offset,
                   namespace |-> namespace]
    /\ response' = [value |-> list_types(_data_store, owner_id, account_id, limit,
                                            offset, namespace)]
    /\ served' = served + 1
    /\ _data_store' = after_list(_data_store, "types", owner_id, account_id)
    /\ UNCHANGED <<fixtures, hashSeed, auth_vars, thread_vars>>

\* a caller invokes DataStore.get_type on the global store
call_get_type(type_id, owner_id, account_id) ==
    /\ Injected
    /\ request' = [op |-> "get_type", id |-> type_id, owner_id |-> owner_id,
                   account_id |-> account_id]
    /\ response' = [value |-> get_type(_data_store, type_id, owner_id, account_id)]
    /\ served' = served + 1
    /\ _data_store' = after_get(_data_store, "types", type_id)
    /\ UNCHANGED <<fixtures, hashSeed, auth_vars, thread_vars>>

\* the answer of routes/types.py: list_types on store
list_types_response(store, limit, offset, namespace, current_user) ==
    IF ValidPage(limit, offset)
    THEN [status |-> 200,
          body |-> list_types(store, current_user.user_id, current_user.account_id,
                                 limit, offset, namespace)]
    ELSE [status |-> 422]

\* routes/types.py: list_types
route_list_types(limit, offset, namespace, current_user) ==
    /\ Injected
    /\ request' = [op |-> "GET /types", owner_id |-> current_user.user_id,
                   account_id |-> current_user.account_id, limit |-> limit,
                   offset |-> offset, namespace |-> namespace]
    /\ response' = list_types_response(_data_store, limit, offset, namespace,
                                          current_user)
    /\ served' = served + 1
    /\ _data_store' = IF ValidPage(limit, offset)
                    THEN after_list(_data_store, "types", current_user.user_id,
                                    current_user.account_id)
                    ELSE _data_store
    /\ UNCHANGED <<fixtures, hashSeed, auth_vars, thread_vars>>

\* mutant: an entity that is there but not the caller's is answered 403
get_type_response_leak(store, type_id, current_user) ==
    LET type_obj == get_type(store, type_id, current_user.user_id,
                             current_user.account_id)
    IN  IF type_obj # NoneObj THEN [status |-> 200, body |-> type_obj]
        ELSE IF type_id \in DOMAIN store.types
        THEN [status |-> 403, detail |-> <<"Access denied">>]
        ELSE [status |-> 404,
              detail |-> <<"Type with ID '", type_id, "' not found or access denied">>]

\* the answer of routes/types.py: get_type on store
get_type_response(store, type_id, current_user) ==
    LET type_obj == get_type(store, type_id, current_user.user_id,
                                 current_user.account_id)
    IN  IF type_obj = NoneObj
        THEN [status |-> 404,
              detail |-> <<"Type with ID '", type_id, "' not found or access denied">>]
        ELSE [status |-> 200, body |-> type_obj]

\* routes/types.py: get_type
route_get_type(type_id, current_user) ==
    /\ Injected
    /\ request' = [op |-> "GET /types/id", id |-> type_id,
                   owner_id |-> current_user.user_id,
                   account_id |-> current_user.account_id]
    /\ response' = get_type_response(_data_store, type_id, current_user)
    /\ served' = served + 1
    /\ _data_store' = after_get(_data_store, "types", type_id)
    /\ UNCHANGED <<fixtures, hashSeed, auth_vars, thread_vars>>

\* a caller invokes DataStore.list_validators on the global store
call_list_validators(owner_id, account_id, limit, offset, namespace) ==
    /\ Injected
    /\ request' = [op |-> "list_validators", owner_id |-> owner_id,
                   account_id |-> account_id, limit |-> limit, offset |-> offset,
                   namespace |-> namespace]
    /\ response' = [value |-> list_validators(_data_store, owner_id, account_id, limit,
                                            offset, namespace)]
    /\ served' = served + 1
    /\ _data_store' = after_list(_data_store, "validators", owner_id, account_id)
    /\ UNCHANGED <<fixtures, hashSeed, auth_vars, thread_vars>>

\* a caller invokes DataStore.get_validator on the global store
call_get_validator(validator_id, owner_id, account_id) ==
    /\ Injected
    /\ request' = [op |-> "get_validator", id |-> validator_id, owner_id |-> owner_id,
                   account_id |-> account_id]
    /\ response' = [value |-> get_validator(_data_store, validator_id, owner_id, account_id)]
    /\ served' = served + 1
    /\ _data_store' = after_get(_data_store, "validators", validator_id)
    /\ UNCHANGED <<fixtures, hashSeed, auth_vars, thread_vars>>

\* the answer of routes/validators.py: list_validators on store
list_validators_response(store, limit, offset, namespace, current_user) ==
    IF ValidPage(limit, offset)
    THEN [status |-> 200,
          body |-> list_validators(store, current_user.user_id, current_user.account_id,
                                 limit, offset, namespace)]
    ELSE [status |-> 422]

\* routes/validators.py: list_validators
route_list_validators(limit, offset, namespace, current_user) ==
    /\ Injected
    /\ request' = [op |-> "GET /validators", owner_id |-> current_user.user_id,
                   account_id |-> current_user.account_id, limit |-> limit,
                   offset |-> offset, namespace |-> namespace]
    /\ response' = list_validators_response(_data_store, limit, offset, namespace,
                                          current_user)
    /\ served' = served + 1
    /\ _data_store' = IF ValidPage(limit, offset)
                    THEN after_list(_data_store, "validators", current_user.user_id,
                                    current_user.account_id)
                    ELSE _data_store
    /\ UNCHANGED <<fixtures, hashSeed, auth_vars, thread_vars>>

\* the answer of routes/validators.py: get_validator on store
get_validator_response(store, validator_id, current_user) ==
    LET validator_obj == get_validator(store, validator_id, current_user.user_id,
                                 current_user.account_id)
    IN  IF validator_obj = NoneObj
        THEN [status |-> 404,
              detail |-> <<"Validator with ID '", validator_id, "' not found or access denied">>]
        ELSE [status |-> 200, body |-> validator_obj]

\* routes/validators.py: get_validator
route_get_validator(validator_id, current_user) ==
    /\ Injected
    /\ request' = [op |-> "GET /validators/id", id |-> validator_id,
                   owner_id |-> current_user.user_id,
                   account_id |-> current_user.account_id]
    /\ response' = get_validator_response(_data_store, validator_id, current_user)
    /\ served' = served + 1
    /\ _data_store' = after_get(_data_store, "validators", validator_id)
    /\ UNCHANGED <<fixtures, hashSeed, auth_vars, thread_vars>>

\* a caller invokes DataStore.list_fields on the global store
call_list_fields(owner_id, account_id, limit, offset, namespace) ==
    /\ Injected
    /\ request' = [op |-> "list_fields", owner_id |-> owner_id,
                   account_id |-> account_id, limit |-> limit, offset |-> offset,
                   namespace |-> namespace]
    /\ response' = [value |-> list_fields(_data_store, owner_id, account_id, limit,
                                            offset, namespace)]
    /\ served' = served + 1
    /\ _data_store' = after_list(_data_store, "fields", owner_id, account_id)
    /\ UNCHANGED <<fixtures, hashSeed, auth_vars, thread_vars>>

\* a caller invokes DataStore.get_field on the global store
call_get_field(field_id, owner_id, account_id) ==
    /\ Injected
    /\ request' = [op |-> "get_field", id |-> field_id, owner_id |-> owner_id,
                   account_id |-> account_id]
    /\ response' = [value |-> get_field(_data_store, field_id, owner_id, account_id)]
    /\ served' = served + 1
    /\ _data_store' = after_get(_data_store, "fields", field_id)
    /\ UNCHANGED <<fixtures, hashSeed, auth_vars, thread_vars>>

\* the answer of routes/fields.py: list_fields on store
list_fields_response(store, limit, offset, namespace, current_user) ==
    IF ValidPage(limit, offset)
    THEN [status |-> 200,
          body |-> list_fields(store, current_user.user_id, current_user.account_id,
                                 limit, offset, namespace)]
    ELSE [status |-> 422]

\* routes/fields.py: list_fields
route_list_fields(limit, offset, namespace, current_user) ==
    /\ Injected
    /\ request' = [op |-> "GET /fields", owner_id |-> current_user.user_id,
                   account_id |-> current_user.account_id, limit |-> limit,
                   offset |-> offset, namespace |-> namespace]
    /\ response' = list_fields_response(_data_store, limit, offset, namespace,
                                          current_user)
    /\ served' = served + 1
    /\ _data_store' = IF ValidPage(limit, offset)
                    THEN after_list(_data_store, "fields", current_user.user_id,
                                    current_user.account_id)
                    ELSE _data_store
    /\ UNCHANGED <<fixtures, hashSeed, auth_vars, thread_vars>>

\* the answer of routes/fields.py: get_field on store
get_field_response(store, field_id, current_user) ==
    LET field_obj == get_field(store, field_id, current_user.user_id,
                                 current_user.account_id)
    IN  IF field_obj = NoneObj
        THEN [status |-> 404,
              detail |-> <<"Field with ID '", field_id, "' not found or access denied">>]
        ELSE [status |-> 200, body |-> field_obj]

\* routes/fields.py: get_field
route_get_field(field_id, current_user) ==
    /\ Injected
    /\ request' = [op |-> "GET /fields/id", id |-> field_id,
                   owner_id |-> current_user.user_id,
                   account_id |-> current_user.account_id]
    /\ response' = get_field_response(_data_store, field_id, current_user)
    /\ served' = served + 1
    /\ _data_store' = after_get(_data_store, "fields", field_id)
    /\ UNCHANGED <<fixtures, hashSeed, auth_vars, thread_vars>>

\* a caller invokes DataStore.list_objects on the global store
call_list_objects(owner_id, account_id, limit, offset, namespace) ==
    /\ Injected
    /\ request' = [op |-> "list_objects", owner_id |-> owner_id,
                   account_id |-> account_id, limit |-> limit, offset |-> offset,
                   namespace |-> namespace]
    /\ response' = [value |-> list_objects(_data_store, owner_id, account_id, limit,
                                            offset, namespace)]
    /\ served' = served + 1
    /\ _data_store' = after_list(_data_store, "objects", owner_id, account_id)
    /\ UNCHANGED <<fixtures, hashSeed, auth_vars, thread_vars>>

\* a caller invokes DataStore.get_object on the global store
call_get_object(object_id, owner_id, account_id) ==
    /\ Injected
    /\ request' = [op |-> "get_object", id |-> object_id, owner_id |-> owner_id,
                   account_id |-> account_id]
    /\ response' = [value |-> get_object(_data_store, object_id, owner_id, account_id)]
    /\ served' = served + 1
    /\ _data_store' = after_get(_data_store, "objects", object_id)
    /\ UNCHANGED <<fixtures, hashSeed, auth_vars, thread_vars>>

\* the answer of routes/objects.py: list_objects on store
list_objects_response(store, limit, offset, namespace, current_user) ==
    IF ValidPage(limit, offset)
    THEN [status |-> 200,
          body |-> list_objects(store, current_user.user_id, current_user.account_id,
                                 limit, offset, namespace)]
    ELSE [status |-> 422]

\* routes/objects.py: list_objects
route_list_objects(limit, offset, namespace, current_user) ==
    /\ Injected
    /\ request' = [op |-> "GET /objects", owner_id |-> current_user.user_id,
                   account_id |-> current_user.account_id, limit |-> limit,
                   offset |-> offset, namespace |-> namespace]
    /\ response' = list_objects_response(_data_store, limit, offset, namespace,
                                          current_user)
    /\ served' = served + 1
    /\ _data_store' = IF ValidPage(limit, offset)
                    THEN after_list(_data_store, "objects", current_user.user_id,
                                    current_user.account_id)
                    ELSE _data_store
    /\ UNCHANGED <<fixtures, hashSeed, auth_vars, thread_vars>>

\* the answer of routes/objects.py: get_object on store
get_object_response(store, object_id, current_user) ==
    LET object_obj == get_object(store, object_id, current_user.user_id,
                                 current_user.account_id)
    IN  IF object_obj = NoneObj
        THEN [status |-> 404,
              detail |-> <<"Object with ID '", object_id, "' not found or access denied">>]
        ELSE [status |-> 200, body |-> object_obj]

\* routes/objects.py: get_object
route_get_object(object_id, current_user) ==
    /\ Injected
    /\ request' = [op |-> "GET /objects/id", id |-> object_id,
                   owner_id |-> current_user.user_id,
                   account_id |-> current_user.account_id]
    /\ response' = get_object_response(_data_store, object_id, current_user)
    /\ served' = served + 1
    /\ _data_store' = after_get(_data_store, "objects", object_id)
    /\ UNCHANGED <<fixtures, hashSeed, auth_vars, thread_vars>>

-----------------------------------------------------------------------------
(* Clerk authentication (mock_api/auth/clerk.py) *)

\* JWKS_CACHE_TTL = 3600
JWKS_CACHE_TTL == 3600

\* time.time() when the process starts
StartTime == 7200
\* the clock advances in steps of half a TTL, MaxTicks times at most
MaxTicks == 3
\* at most MaxFetches requests are sent to the JWKS endpoint
MaxFetches == 2

\* the outcome of a call: a returned value or a raised exception
Ok(value) == [ok |-> TRUE, value |-> value]
Raise(exc) == [ok |-> FALSE, exc |-> exc]

HTTPException(status_code, detail) ==
    [type |-> "HTTPException", status_code |-> status_code, detail |-> detail]
ValueError == [type |-> "ValueError"]

\* str(e) of an HTTPException
StrExc(e) == <<ToString(e.status_code), ": ">> \o e.detail

\* str.lower() on the values REQUIRE_AUTH takes here
Lower(s) ==
    CASE s \in {"true", "True", "TRUE"} -> "true"
      [] s \in {"false", "False", "FALSE"} -> "false"
      [] OTHER -> s

\* os.getenv(name, default)
Getenv(name, default) == IF environ[name] = None THEN default ELSE environ[name]

\* get_clerk_config: the config, or ValueError raised
get_clerk_config ==
    LET jwks_url == Getenv("CLERK_JWKS_URL", None)
        issuer == Getenv("CLERK_ISSUER", None)
        require_auth == Lower(Getenv("REQUIRE_AUTH", "true")) = "true"
    IN  IF require_auth /\ (~Truthy(jwks_url) \/ ~Truthy(issuer))
        THEN Raise(ValueError)
        ELSE Ok([jwks_url |-> IF Truthy(jwks_url) THEN jwks_url ELSE "",
                 issuer |-> IF Truthy(issuer) THEN issuer ELSE "",
                 require_auth |-> IF require_auth THEN "true" ELSE "false"])

\* the globals and the request counter as a call finds and leaves them, and
\* whether the call has entered fetch_jwks
Globals == [_jwks_cache |-> _jwks_cache, _jwks_cache_time |-> _jwks_cache_time,
            fetches |-> fetches, consulted |-> FALSE]

\* a call's effect: the globals it leaves and its outcome
Effect(g, ret) == [g |-> g, ret |-> ret]

\* mutant: when the request fails, a key set cached before is returned
fetch_jwks_body_stale_fallback(g, current_time) ==
    IF g._jwks_cache # EmptyDict
       /\ (current_time - g._jwks_cache_time) < JWKS_CACHE_TTL
    THEN Effect(g, Ok(g._jwks_cache))
    ELSE LET config == get_clerk_config
         IN  IF ~config.ok THEN Effect(g, config)
             ELSE IF config.value.jwks_url = "" THEN Effect(g, Ok(EmptyDict))
             ELSE LET sent == [g EXCEPT !.fetches = @ + 1]
                  IN  IF jwks_remote.up
                      THEN Effect([sent EXCEPT !._jwks_cache = jwks_remote.body,
                                               !._jwks_cache_time = current_time],
                                  Ok(jwks_remote.body))
                      ELSE IF g._jwks_cache # EmptyDict
                      THEN Effect(sent, Ok(g._jwks_cache))
                      ELSE Effect(sent,
                                  Raise(HTTPException(503,
                                      <<"Failed to fetch JWKS: ", "ConnectError">>)))

\* mutant: a failed request is remembered as the time of the last fetch
fetch_jwks_body_failure_stamped(g, current_time) ==
    IF g._jwks_cache # EmptyDict
       /\ (current_time - g._jwks_cache_time) < JWKS_CACHE_TTL
    THEN Effect(g, Ok(g._jwks_cache))
    ELSE LET config == get_clerk_config
         IN  IF ~config.ok THEN Effect(g, config)
             ELSE IF config.value.jwks_url = "" THEN Effect(g, Ok(EmptyDict))
             ELSE LET sent == [g EXCEPT !.fetches = @ + 1]
                  IN  IF jwks_remote.up
                      THEN Effect([sent EXCEPT !._jwks_cache = jwks_remote.body,
                                               !._jwks_cache_time = current_time],
                                  Ok(jwks_remote.body))
                      ELSE Effect([sent EXCEPT !._jwks_cache_time = current_time],
                                  Raise(HTTPException(503,
                                      <<"Failed to fetch JWKS: ", "ConnectError">>)))

\* mutant: a cache exactly one TTL old still counts as valid
fetch_jwks_body_ttl_inclusive(g, current_time) ==
    IF g._jwks_cache # EmptyDict
       /\ (current_time - g._jwks_cache_time) <= JWKS_CACHE_TTL
    THEN Effect(g, Ok(g._jwks_cache))
    ELSE LET config == get_clerk_config
         IN  IF ~config.ok THEN Effect(g, config)
             ELSE IF config.value.jwks_url = "" THEN Effect(g, Ok(EmptyDict))
             ELSE LET sent == [g EXCEPT !.fetches = @ + 1]
                  IN  IF jwks_remote.up
                      THEN Effect([sent EXCEPT !._jwks_cache = jwks_remote.body,
                                               !._jwks_cache_time = current_time],
                                  Ok(jwks_remote.body))
                      ELSE Effect(sent,
                                  Raise(HTTPException(503,
                                      <<"Failed to fetch JWKS: ", "ConnectError">>)))

\* fetch_jwks, entered with the globals g at time current_time
fetch_jwks_body(g, current_time) ==
    IF g._jwks_cache # EmptyDict
       /\ (current_time - g._jwks_cache_time) < JWKS_CACHE_TTL
    THEN Effect(g, Ok(g._jwks_cache))
    ELSE LET config == get_clerk_config
         IN  IF ~config.ok THEN Effect(g, config)
             ELSE IF config.value.jwks_url = "" THEN Effect(g, Ok(EmptyDict))
             ELSE LET sent == [g EXCEPT !.fetches = @ + 1]
                  IN  IF jwks_remote.up
                      THEN Effect([sent EXCEPT !._jwks_cache = jwks_remote.body,
                                               !._jwks_cache_time = current_time],
                                  Ok(jwks_remote.body))
                      ELSE Effect(sent,
                                  Raise(HTTPException(503,
                                      <<"Failed to fetch JWKS: ", "ConnectError">>)))

\* fetch_jwks, called with the globals g at time current_time
fetch_jwks(g, current_time) ==
    fetch_jwks_body([g EXCEPT !.consulted = TRUE], current_time)

\* the first key of keys whose kid is kid, or NoneObj
RECURSIVE FindKey(_, _)
FindKey(keys, kid) ==
    IF keys = <<>> THEN NoneObj
    ELSE IF GetAttr(Head(keys), "kid", None) = kid THEN Head(keys)
    ELSE FindKey(Tail(keys), kid)

\* get_signing_key after fetch_jwks answered: the key the token's header names
key_from_jwks(fetched, token) ==
    LET jwks == fetched.ret.value
    IN  IF ~fetched.ret.ok THEN fetched
        ELSE IF jwks = EmptyDict
        THEN Effect(fetched.g, Raise(HTTPException(500, <<"JWKS not available">>)))
        ELSE IF ~token.header_ok
        THEN Effect(fetched.g,
                    Raise(HTTPException(401, <<"Invalid token header: ", "DecodeError">>)))
        ELSE LET kid == GetAttr(token.header, "kid", None)
                 key == FindKey(GetAttr(jwks, "keys", <<>>), kid)
             IN  IF key = NoneObj
                 THEN Effect(fetched.g,
                             Raise(HTTPException(401, <<"Unable to find signing key">>)))
                 ELSE Effect(fetched.g, Ok(key.material))

\* mutant: a kid the cached key set does not hold makes the key set be fetched anew
get_signing_key_refresh_on_miss(g, token) ==
    LET first == key_from_jwks(fetch_jwks(g, clock), token)
    IN  IF ~first.ret.ok
           /\ first.ret.exc = HTTPException(401, <<"Unable to find signing key">>)
        THEN key_from_jwks(fetch_jwks([first.g EXCEPT !._jwks_cache = EmptyDict], clock),
                           token)
        ELSE first

\* get_signing_key
get_signing_key(g, token) == key_from_jwks(fetch_jwks(g, clock), token)

\* jwt.decode(token, signing_key, algorithms=["RS256"], issuer=issuer,
\* options={"verify_aud": False}): the payload, or the jwt error raised
jwt_decode(token, signing_key, issuer) ==
    IF token.header.alg # "RS256" THEN Raise([type |-> "InvalidAlgorithmError"])
    ELSE IF token.signed_with # signing_key THEN Raise([type |-> "InvalidSignatureError"])
    ELSE IF "exp" \in DOMAIN token.payload /\ token.payload.exp <= clock
    THEN Raise([type |-> "ExpiredSignatureError"])
    ELSE IF "iss" \notin DOMAIN token.payload
    THEN Raise([type |-> "MissingRequiredClaimError"])
    ELSE IF token.payload.iss # issuer THEN Raise([type |-> "InvalidIssuerError"])
    ELSE Ok(token.payload)

\* the claims verify_token returns when authentication is not required
TestClaims ==
    [sub |-> "user_test123", org_id |-> "acct_test123", email |-> "test@example.com"]

\* mutant: jwt.InvalidTokenError, the base class, is caught before its subclasses
decode_with_key_base_first(key, token, issuer) ==
    LET decoded == jwt_decode(token, key.ret.value, issuer)
    IN  IF ~key.ret.ok
        THEN Effect(key.g,
               Raise(HTTPException(401,
                   <<"Authentication failed: ">> \o StrExc(key.ret.exc))))
        ELSE IF decoded.ok THEN Effect(key.g, decoded)
        ELSE Effect(key.g,
               Raise(HTTPException(401, <<"Invalid token: ", decoded.exc.type>>)))

\* verify_token after get_signing_key answered: the token decoded with the key
decode_with_key(key, token, issuer) ==
    LET decoded == jwt_decode(token, key.ret.value, issuer)
    IN  IF ~key.ret.ok
        THEN Effect(key.g,
               Raise(HTTPException(401,
                   <<"Authentication failed: ">> \o StrExc(key.ret.exc))))
        ELSE IF decoded.ok THEN Effect(key.g, decoded)
        ELSE IF decoded.exc.type = "ExpiredSignatureError"
        THEN Effect(key.g, Raise(HTTPException(401, <<"Token has expired">>)))
        ELSE IF decoded.exc.type = "InvalidIssuerError"
        THEN Effect(key.g, Raise(HTTPException(401, <<"Invalid token issuer">>)))
        ELSE Effect(key.g,
               Raise(HTTPException(401, <<"Invalid token: ", decoded.exc.type>>)))

\* mutant: the test claims are handed out to well-formed tokens only
verify_token_parses_first(g, token) ==
    LET config == get_clerk_config
    IN  IF ~config.ok THEN Effect(g, config)
        ELSE IF config.value.require_auth = "false" /\ token.header_ok
        THEN Effect(g, Ok(TestClaims))
        ELSE decode_with_key(get_signing_key(g, token), token, config.value.issuer)

\* mutant: the signing key is looked up before the flag is looked at
verify_token_key_first(g, token) ==
    LET config == get_clerk_config
        key == get_signing_key(g, token)
    IN  IF ~config.ok THEN Effect(g, config)
        ELSE IF config.value.require_auth = "false" THEN Effect(key.g, Ok(TestClaims))
        ELSE decode_with_key(key, token, config.value.issuer)

\* verify_token
verify_token(g, token) ==
    LET config == get_clerk_config
    IN  IF ~config.ok THEN Effect(g, config)
        ELSE IF config.value.require_auth = "false" THEN Effect(g, Ok(TestClaims))
        ELSE decode_with_key(get_signing_key(g, token), token, config.value.issuer)

UserClaims(user_id, account_id, email) ==
    [user_id |-> user_id, account_id |-> account_id, email |-> email]

\* mutant: the account is the organization claim, with no fallback
user_from_claims_no_fallback(verified) ==
    LET claims == verified.ret.value
        user_id == GetAttr(claims, "sub", None)
        account_id == GetAttr(claims, "org_id", None)
        email == GetAttr(claims, "email", None)
    IN  IF ~verified.ret.ok THEN verified
        ELSE IF ~Truthy(user_id)
        THEN Effect(verified.g,
               Raise(HTTPException(401, <<"Invalid token claims: missing user_id">>)))
        ELSE Effect(verified.g, Ok(UserClaims(user_id, account_id, email)))

\* get_current_user after verify_token answered: the user built from the claims
user_from_claims(verified) ==
    LET claims == verified.ret.value
        user_id == GetAttr(claims, "sub", None)
        account_id == IF Truthy(GetAttr(claims, "org_id", None))
                      THEN claims.org_id ELSE GetAttr(claims, "sub", None)
        email == GetAttr(claims, "email", None)
    IN  IF ~verified.ret.ok THEN verified
        ELSE IF ~Truthy(user_id)
        THEN Effect(verified.g,
               Raise(HTTPException(401, <<"Invalid token claims: missing user_id">>)))
        ELSE Effect(verified.g, Ok(UserClaims(user_id, account_id, email)))

\* get_current_user, with the credentials HTTPBearer extracted
get_current_user(g, credentials) ==
    LET config == get_clerk_config
    IN  IF ~config.ok THEN Effect(g, config)
        ELSE IF config.value.require_auth = "false"
        THEN Effect(g, Ok(UserClaims("user_test123", "acct_test123", "test@example.com")))
        ELSE user_from_claims(verify_token(g, credentials))

-----------------------------------------------------------------------------
(* The environment of the verification: process environment, identity      *)
(* provider, credentials                                                   *)

JwksUrl == "https://clerk.example/.well-known/jwks.json"
Issuer == "https://clerk.example"

Environs ==
    [REQUIRE_AUTH : {None, "true", "TRUE", "false", "False", "0", "1"},
     CLERK_JWKS_URL : {None, "", JwksUrl},
     CLERK_ISSUER : {None, Issuer}]

\* tests/conftest.py: REQUIRE_AUTH=false and nothing else
TestEnviron ==
    [REQUIRE_AUTH |-> "false", CLERK_JWKS_URL |-> None, CLERK_ISSUER |-> None]

Key1 == [kid |-> "kid_1", material |-> "key_1"]
Key2 == [kid |-> "kid_2", material |-> "key_2"]
KeyNoKid == [material |-> "key_3"]

\* what the JWKS endpoint may answer: nothing, or one of these documents
RemoteStates ==
    {[up |-> FALSE, body |-> EmptyDict]}
    \cup {[up |-> TRUE, body |-> [keys |-> ks]] :
            ks \in {<<Key1>>, <<Key2>>, <<KeyNoKid, Key1>>}}

GoodPayload ==
    [sub |-> "user_a", org_id |-> "acct_a", email |-> "a@example.com",
     iss |-> Issuer, exp |-> StartTime + JWKS_CACHE_TTL]

GoodToken ==
    [header_ok |-> TRUE, header |-> [alg |-> "RS256", kid |-> "kid_1"],
     signed_with |-> "key_1", payload |-> GoodPayload]

\* credentials that are no JWT at all: the empty string and garbage
MalformedTokens ==
    {[header_ok |-> FALSE, raw |-> ""], [header_ok |-> FALSE, raw |-> "garbage"]}

Tokens ==
    MalformedTokens
    \cup {GoodToken,
          [GoodToken EXCEPT !.header = [alg |-> "RS256", kid |-> "kid_2"],
                            !.signed_with = "key_2"],
          [GoodToken EXCEPT !.header = [alg |-> "RS256", kid |-> "kid_9"]],
          [GoodToken EXCEPT !.header = [alg |-> "RS256"], !.signed_with = "key_3"],
          [GoodToken EXCEPT !.header = [alg |-> "HS256", kid |-> "kid_1"]],
          [GoodToken EXCEPT !.signed_with = "forged"],
          [GoodToken EXCEPT !.payload.exp = StartTime - 1],
          [GoodToken EXCEPT !.payload.iss = "https://evil.example"],
          [GoodToken EXCEPT !.payload.exp = StartTime - 1,
                            !.payload.iss = "https://evil.example"],
          [GoodToken EXCEPT !.payload =
              [org_id |-> "acct_a", email |-> "a@example.com", iss |-> Issuer,
               exp |-> StartTime + JWKS_CACHE_TTL]],
          [GoodToken EXCEPT !.payload =
              [sub |-> "user_a", iss |-> Issuer, exp |-> StartTime + JWKS_CACHE_TTL]],
          [GoodToken EXCEPT !.payload.org_id = ""],
          [GoodToken EXCEPT !.payload.sub = ""]}

NoResult == [fn |-> "none"]

\* a request reaches get_current_user
call_get_current_user(credentials) ==
    /\ fetches < MaxFetches
    /\ LET done == get_current_user(Globals, credentials)
       IN  /\ _jwks_cache' = done.g._jwks_cache
           /\ _jwks_cache_time' = done.g._jwks_cache_time
           /\ fetches' = done.g.fetches
           /\ auth_result' = [fn |-> "get_current_user", arg |-> credentials,
                               ret |-> done.ret, consulted |-> done.g.consulted]
    /\ UNCHANGED <<environ, clock, jwks_remote, store_vars, thread_vars>>

\* verify_token is called on a token
call_verify_token(token) ==
    /\ fetches < MaxFetches
    /\ LET done == verify_token(Globals, token)
       IN  /\ _jwks_cache' = done.g._jwks_cache
           /\ _jwks_cache_time' = done.g._jwks_cache_time
           /\ fetches' = done.g.fetches
           /\ auth_result' = [fn |-> "verify_token", arg |-> token,
                               ret |-> done.ret, consulted |-> done.g.consulted]
    /\ UNCHANGED <<environ, clock, jwks_remote, store_vars, thread_vars>>

\* fetch_jwks is called; the time of the call is kept with its answer
call_fetch_jwks ==
    /\ fetches < MaxFetches
    /\ LET done == fetch_jwks(Globals, clock)
       IN  /\ _jwks_cache' = done.g._jwks_cache
           /\ _jwks_cache_time' = done.g._jwks_cache_time
           /\ fetches' = done.g.fetches
           /\ auth_result' = [fn |-> "fetch_jwks", at |-> clock, ret |-> done.ret]
    /\ UNCHANGED <<environ, clock, jwks_remote, store_vars, thread_vars>>

\* time passes
tick ==
    /\ clock < StartTime + MaxTicks * (JWKS_CACHE_TTL \div 2)
    /\ clock' = clock + JWKS_CACHE_TTL \div 2
    /\ UNCHANGED <<environ, _jwks_cache, _jwks_cache_time, jwks_remote, fetches,
                   auth_result, store_vars, thread_vars>>

\* the identity provider rotates its keys, goes down or comes back
remote_change ==
    /\ jwks_remote' \in RemoteStates \ {jwks_remote}
    /\ UNCHANGED <<environ, _jwks_cache, _jwks_cache_time, clock, fetches,
                   auth_result, store_vars, thread_vars>>

-----------------------------------------------------------------------------
(* fetch_jwks statement by statement, as threads run it.  The function     *)
(* takes no lock: between any two of its statements another thread may     *)
(* run.                                                                    *)

\* at most MaxThreads threads are inside fetch_jwks
MaxThreads == 2
Threads == 1..MaxThreads

\* a thread that is not inside fetch_jwks
Outside == [pc |-> "out", current_time |-> 0, response |-> EmptyDict,
            read |-> <<>>]

\* the environment of a deployment: authentication required and configured
ProdEnviron ==
    [REQUIRE_AUTH |-> "true", CLERK_JWKS_URL |-> JwksUrl, CLERK_ISSUER |-> Issuer]

\* what a step of a thread leaves alone
ThreadFrame ==
    UNCHANGED <<environ, clock, jwks_remote, auth_result, store_vars, heap>>

\* line 54: current_time = time.time()
fetch_jwks_54(t) ==
    /\ threads[t].pc = "out"
    /\ fetches < MaxFetches
    /\ threads' = [threads EXCEPT ![t] = [@ EXCEPT !.pc = "57",
                                                   !.current_time = clock]]
    /\ UNCHANGED <<_jwks_cache, _jwks_cache_time, fetches, fetch_log>>
    /\ ThreadFrame

\* lines 57-58: both globals are read; a valid cache is returned
fetch_jwks_57(t) ==
    /\ threads[t].pc = "57"
    /\ threads' = [threads EXCEPT ![t] =
           [@ EXCEPT !.read = <<_jwks_cache, _jwks_cache_time>>,
                     !.pc = IF _jwks_cache # EmptyDict
                               /\ (threads[t].current_time - _jwks_cache_time)
                                      < JWKS_CACHE_TTL
                            THEN "return" ELSE "61"]]
    /\ UNCHANGED <<_jwks_cache, _jwks_cache_time, fetches, fetch_log>>
    /\ ThreadFrame

\* lines 61-65: the configuration is read; no URL, no request
fetch_jwks_61(t) ==
    /\ threads[t].pc = "61"
    /\ threads' = [threads EXCEPT ![t] =
           [@ EXCEPT !.pc = IF get_clerk_config.ok /\ get_clerk_config.value.jwks_url # ""
                            THEN "68" ELSE "return"]]
    /\ UNCHANGED <<_jwks_cache, _jwks_cache_time, fetches, fetch_log>>
    /\ ThreadFrame

\* lines 68-69 and 73-77: httpx.get answers, or fails and 503 is raised
fetch_jwks_68(t) ==
    /\ threads[t].pc = "68"
    /\ fetches' = fetches + 1
    /\ IF jwks_remote.up
       THEN /\ threads' = [threads EXCEPT ![t] = [@ EXCEPT !.pc = "70",
                                                    !.response = jwks_remote.body]]
            /\ fetch_log' = fetch_log \cup {<<jwks_remote.body, threads[t].current_time>>}
       ELSE /\ threads' = [threads EXCEPT ![t] = [@ EXCEPT !.pc = "return"]]
            /\ UNCHANGED fetch_log
    /\ UNCHANGED <<_jwks_cache, _jwks_cache_time>>
    /\ ThreadFrame

\* line 70: _jwks_cache = response.json()
fetch_jwks_70(t) ==
    /\ threads[t].pc = "70"
    /\ _jwks_cache' = threads[t].response
    /\ threads' = [threads EXCEPT ![t] = [@ EXCEPT !.pc = "71"]]
    /\ UNCHANGED <<_jwks_cache_time, fetches, fetch_log>>
    /\ ThreadFrame

\* line 71: _jwks_cache_time = current_time
fetch_jwks_71(t) ==
    /\ threads[t].pc = "71"
    /\ _jwks_cache_time' = threads[t].current_time
    /\ threads' = [threads EXCEPT ![t] = [@ EXCEPT !.pc = "return"]]
    /\ UNCHANGED <<_jwks_cache, fetches, fetch_log>>
    /\ ThreadFrame

\* lines 58, 65, 72, 74: the call returns or raises, its locals are gone
fetch_jwks_return(t) ==
    /\ threads[t].pc = "return"
    /\ threads' = [threads EXCEPT ![t] = Outside]
    /\ UNCHANGED <<_jwks_cache, _jwks_cache_time, fetches, fetch_log>>
    /\ ThreadFrame

-----------------------------------------------------------------------------
(* get_data_store statement by statement, as threads run it: it is a plain *)
(* def, which the framework calls in a thread pool.  A DataStore is an     *)
(* object: the global names it, load_fixtures changes it in place, and a   *)
(* caller is handed the object, not a copy.  An object is known by the     *)
(* thread that created it.                                                 *)

\* no DataStore was created and the global is None
NoHeap == [objects |-> [t \in Threads |-> NoneObj], named |-> 0]

\* the value of the global _data_store in the heap h
Deref(h) == IF h.named = 0 THEN NoneObj ELSE h.objects[h.named]

\* a thread that is not inside get_data_store
Idle == [pc |-> "out", self |-> 0, done |-> 0, got |-> NoneObj]

\* the records of the fixtures file in the order load_fixtures takes them
Records(data) ==
    [i \in 1..Len(data.types) |-> <<"types", data.types[i]>>]
    \o [i \in 1..Len(data.validators) |-> <<"validators", data.validators[i]>>]
    \o [i \in 1..Len(data.fields) |-> <<"fields", data.fields[i]>>]
    \o [i \in 1..Len(data.objects) |-> <<"objects", data.objects[i]>>]

\* one statement of a loop body of load_fixtures on the store self: the entry
\* of the primary map, of the by-owner index, of the by-account index
load_statement(self, kind, raw, statement) ==
    LET obj == ModelOf(kind, raw)
    IN  CASE statement = 1 -> [self EXCEPT ![kind] = DictPut(@, obj.id, obj)]
          [] statement = 2 ->
                [self EXCEPT ![ByOwner[kind]] = DictAppend(@, obj.owner_id, obj.id)]
          [] statement = 3 ->
                [self EXCEPT ![ByAccount[kind]] = DictAppend(@, obj.account_id, obj.id)]

\* what a step of a thread in get_data_store leaves alone
StoreThreadFrame ==
    UNCHANGED <<fixtures, hashSeed, request, response, served, auth_vars, fetch_log>>

\* line 221: if _data_store is None
get_data_store_221(t) ==
    /\ threads[t].pc = "out"
    /\ threads' = [threads EXCEPT ![t] =
           [@ EXCEPT !.pc = IF heap.named = 0 THEN "222" ELSE "224"]]
    /\ UNCHANGED <<heap, _data_store>>
    /\ StoreThreadFrame

\* line 222: _data_store = DataStore()
get_data_store_222(t) ==
    /\ threads[t].pc = "222"
    /\ heap' = [objects |-> [heap.objects EXCEPT ![t] = DataStore], named |-> t]
    /\ _data_store' = Deref(heap')
    /\ threads' = [threads EXCEPT ![t] = [@ EXCEPT !.pc = "223"]]
    /\ StoreThreadFrame

\* line 223: _data_store.load_fixtures() is entered on the object the global
\* names now
get_data_store_223(t) ==
    /\ threads[t].pc = "223"
    /\ threads' = [threads EXCEPT ![t] =
           [@ EXCEPT !.self = heap.named,
                     !.pc = IF Records(fixtures) = <<>> THEN "224" ELSE "load"]]
    /\ UNCHANGED <<heap, _data_store>>
    /\ StoreThreadFrame

\* lines 47-72: the next statement of the loops of load_fixtures
load_fixtures_step(t) ==
    /\ threads[t].pc = "load"
    /\ LET self == threads[t].self
           record == Records(fixtures)[(threads[t].done \div 3) + 1]
           statement == (threads[t].done % 3) + 1
       IN  heap' = [heap EXCEPT !.objects[self] =
                       load_statement(@, record[1], record[2], statement)]
    /\ _data_store' = Deref(heap')
    /\ threads' = [threads EXCEPT ![t] =
           [@ EXCEPT !.done = threads[t].done + 1,
                     !.pc = IF threads[t].done + 1 = 3 * Len(Records(fixtures))
                            THEN "224" ELSE "load"]]
    /\ StoreThreadFrame

\* line 224: return _data_store; the caller holds the object as it is now
get_data_store_224(t) ==
    /\ threads[t].pc = "224"
    /\ threads' = [threads EXCEPT ![t] = [@ EXCEPT !.pc = "returned",
                                                   !.got = Deref(heap)]]
    /\ UNCHANGED <<heap, _data_store>>
    /\ StoreThreadFrame

\* the caller is done with the store it was handed
get_data_store_done(t) ==
    /\ threads[t].pc = "returned"
    /\ threads' = [threads EXCEPT ![t] = Idle]
    /\ UNCHANGED <<heap, _data_store>>
    /\ StoreThreadFrame

-----------------------------------------------------------------------------
(* A request from the wire to its answer.  The framework resolves the      *)
(* dependencies of a handler in the order of its parameters, current_user  *)
(* before store, and their own dependencies first: security, then          *)
(* get_current_user, then get_data_store, then the query parameters are    *)
(* validated and the handler runs.  An HTTPException raised on the way is  *)
(* the answer.                                                             *)

\* security = HTTPBearer(): the credentials of the Authorization header; 403
\* when there is no header, no credentials after the scheme, or another scheme
security(authorization) ==
    IF authorization = NoneObj
       \/ authorization.credentials = [header_ok |-> FALSE, raw |-> ""]
    THEN Raise(HTTPException(403, <<"Not authenticated">>))
    ELSE IF Lower(authorization.scheme) # "bearer"
    THEN Raise(HTTPException(403, <<"Invalid authentication credentials">>))
    ELSE Ok(authorization.credentials)

\* mutant: the fixed test user is handed out before the header is looked at
depends_get_current_user_bypass_first(g, authorization) ==
    LET credentials == security(authorization)
    IN  IF get_clerk_config.ok /\ get_clerk_config.value.require_auth = "false"
        THEN Effect(g, Ok(UserClaims("user_test123", "acct_test123",
                                     "test@example.com")))
        ELSE IF ~credentials.ok THEN Effect(g, credentials)
        ELSE get_current_user(g, credentials.value)

\* Depends(get_current_user), with credentials = Depends(security)
depends_get_current_user(g, authorization) ==
    LET credentials == security(authorization)
    IN  IF ~credentials.ok THEN Effect(g, credentials)
        ELSE get_current_user(g, credentials.value)

\* the answer an exception raised by a dependency becomes
error_response(exc) ==
    IF exc.type = "HTTPException"
    THEN [status |-> exc.status_code, detail |-> exc.detail]
    ELSE [status |-> 500]

\* the answer of the list handler of kind
list_response(kind, store, limit, offset, namespace, current_user) ==
    CASE kind = "types" ->
            list_types_response(store, limit, offset, namespace, current_user)
      [] kind = "validators" ->
            list_validators_response(store, limit, offset, namespace, current_user)
      [] kind = "fields" ->
            list_fields_response(store, limit, offset, namespace, current_user)
      [] kind = "objects" ->
            list_objects_response(store, limit, offset, namespace, current_user)

\* the answer of the get handler of kind
get_response(kind, store, id, current_user) ==
    CASE kind = "types" -> get_type_response(store, id, current_user)
      [] kind = "validators" -> get_validator_response(store, id, current_user)
      [] kind = "fields" -> get_field_response(store, id, current_user)
      [] kind = "objects" -> get_object_response(store, id, current_user)

\* what a request leaves alone
HttpFrame == UNCHANGED <<fixtures, hashSeed, environ, clock, jwks_remote, thread_vars>>

\* the dependencies of a request resolved: user is what
\* Depends(get_current_user) came to, answer the handler's answer on the
\* store Depends(get_data_store) returns
http_answer(user, authorization, answer, store) ==
    /\ _jwks_cache' = user.g._jwks_cache
    /\ _jwks_cache_time' = user.g._jwks_cache_time
    /\ fetches' = user.g.fetches
    /\ auth_result' = [fn |-> "Depends(get_current_user)", arg |-> authorization,
                        ret |-> user.ret, consulted |-> user.g.consulted]
    /\ served' = served + 1
    /\ IF user.ret.ok
       THEN /\ _data_store' = store
            /\ response' = answer
       ELSE /\ _data_store' = _data_store
            /\ response' = error_response(user.ret.exc)
    /\ HttpFrame

\* GET /api/mock/<kind>
http_list(kind, limit, offset, namespace, authorization) ==
    /\ served < MaxRequests
    /\ fetches < MaxFetches
    /\ request' = [op |-> "GET /api/mock/<kind>", kind |-> kind, limit |-> limit,
                   offset |-> offset, namespace |-> namespace,
                   authorization |-> authorization]
    /\ http_answer(depends_get_current_user(Globals, authorization), authorization,
                   list_response(kind, get_data_store, limit, offset, namespace,
                       depends_get_current_user(Globals, authorization).ret.value),
                   get_data_store)

\* GET /api/mock/<kind>/<id>
http_get(kind, id, authorization) ==
    /\ served < MaxRequests
    /\ fetches < MaxFetches
    /\ request' = [op |-> "GET /api/mock/<kind>/<id>", kind |-> kind, id |-> id,
                   authorization |-> authorization]
    /\ http_answer(depends_get_current_user(Globals, authorization), authorization,
                   get_response(kind, get_data_store, id,
                       depends_get_current_user(Globals, authorization).ret.value),
                   get_data_store)

\* the Authorization headers of requests: none, Bearer with a credential,
\* Bearer with nothing after it, another scheme
Authorizations ==
    {NoneObj}
    \cup [scheme : {"Bearer", "bearer"},
          credentials : MalformedTokens \cup
              {GoodToken, [GoodToken EXCEPT !.signed_with = "forged"]}]
    \cup {[scheme |-> "Basic", credentials |-> GoodToken]}

-----------------------------------------------------------------------------
(* Specifications *)

\* the store before get_data_store was ever called
StoreStart ==
    /\ hashSeed \in 0..MaxHashSeed
    /\ _data_store = NoneObj
    /\ request = NoRequest
    /\ response = NoResponse
    /\ served = 0

\* the verification before any call
AuthStart ==
    /\ _jwks_cache = EmptyDict
    /\ _jwks_cache_time = 0
    /\ clock = StartTime
    /\ fetches = 0
    /\ auth_result = NoResult
    /\ threads = [t \in Threads |-> Outside]
    /\ fetch_log = {}
    /\ heap = NoHeap

\* Spec: the store and its routes, over every fixtures file
Init ==
    /\ fixtures \in Datasets
    /\ StoreStart
    /\ environ = TestEnviron
    /\ jwks_remote = [up |-> FALSE, body |-> EmptyDict]
    /\ AuthStart

\* limits and offsets of calls on the store
Limits == 0..MaxLimit \cup {DefaultLimit}
Offsets == 0..MaxOffset

\* the calls on the store
StoreCalls ==
    \/ \E owner_id \in CallerUserIds, account_id \in CallerAccountIds,
          limit \in Limits, offset \in Offsets, namespace \in AskedNamespaces :
          \/ call_list_types(owner_id, account_id, limit, offset, namespace)
          \/ call_list_validators(owner_id, account_id, limit, offset, namespace)
          \/ call_list_fields(owner_id, account_id, limit, offset, namespace)
          \/ call_list_objects(owner_id, account_id, limit, offset, namespace)
    \/ \E owner_id \in CallerUserIds, account_id \in CallerAccountIds :
          \/ \E type_id \in AskedTypeIds : call_get_type(type_id, owner_id, account_id)
          \/ \E validator_id \in AskedValidatorIds :
                call_get_validator(validator_id, owner_id, account_id)
          \/ \E field_id \in AskedFieldIds :
                call_get_field(field_id, owner_id, account_id)
          \/ \E object_id \in AskedObjectIds :
                call_get_object(object_id, owner_id, account_id)

\* the requests to the routes
RouteRequests ==
    \/ \E limit \in {0, 1, DefaultLimit, 1001}, offset \in {0, 1},
          namespace \in {None, "user"}, current_user \in Callers :
          \/ route_list_types(limit, offset, namespace, current_user)
          \/ route_list_validators(limit, offset, namespace, current_user)
          \/ route_list_fields(limit, offset, namespace, current_user)
          \/ route_list_objects(limit, offset, namespace, current_user)
    \/ \E current_user \in Callers :
          \/ \E type_id \in AskedTypeIds : route_get_type(type_id, current_user)
          \/ \E validator_id \in AskedValidatorIds :
                route_get_validator(validator_id, current_user)
          \/ \E field_id \in AskedFieldIds : route_get_field(field_id, current_user)
          \/ \E object_id \in AskedObjectIds : route_get_object(object_id, current_user)

Next ==
    \/ startup_event
    \/ depends_get_data_store
    \/ Injected /\ StoreCalls
    \/ Injected /\ RouteRequests

Spec == Init /\ [][Next]_vars

\* SpecAuth: the verification, over every environment
InitAuth ==
    /\ fixtures = FixtureData
    /\ StoreStart
    /\ hashSeed = 0
    /\ environ \in Environs
    /\ jwks_remote \in RemoteStates
    /\ AuthStart

NextAuth ==
    \/ \E credentials \in Tokens : call_get_current_user(credentials)
    \/ \E token \in Tokens : call_verify_token(token)
    \/ tick
    \/ remote_change

SpecAuth == InitAuth /\ [][NextAuth]_vars

\* SpecLoad: the store loaded from a fixtures file that may hold a malformed
\* record, and listed afterwards
InitLoad ==
    /\ fixtures \in BrokenDatasets \cup {FixtureData}
    /\ StoreStart
    /\ environ = TestEnviron
    /\ jwks_remote = [up |-> FALSE, body |-> EmptyDict]
    /\ AuthStart

\* every kind listed with the default page
LoadCalls ==
    \E owner_id \in CallerUserIds, account_id \in CallerAccountIds :
        \/ call_list_types(owner_id, account_id, DefaultLimit, 0, None)
        \/ call_list_validators(owner_id, account_id, DefaultLimit, 0, None)
        \/ call_list_fields(owner_id, account_id, DefaultLimit, 0, None)
        \/ call_list_objects(owner_id, account_id, DefaultLimit, 0, None)

NextLoad ==
    \/ startup_event
    \/ depends_get_data_store
    \/ Injected /\ LoadCalls

SpecLoad == InitLoad /\ [][NextLoad]_vars

\* SpecReload: load_fixtures called again and again on one store, each time
\* on a file of one record; the files reuse ids under other owners and accounts
MaxLoads == 2

\* the fixtures files of one record
ReloadData ==
    {data \in GeneratedData :
        Len(data.types) + Len(data.validators) + Len(data.fields) + Len(data.objects) = 1}

\* the number of ids the index d holds under the keys
RECURSIVE Held(_, _)
Held(d, keys) ==
    IF keys = {} THEN 0
    ELSE LET key == CHOOSE k \in keys : TRUE
         IN  Len(d[key]) + Held(d, keys \ {key})

\* the number of records loaded into the store so far
Loaded(store) ==
    Held(store.types_by_owner, DOMAIN store.types_by_owner)
    + Held(store.validators_by_owner, DOMAIN store.validators_by_owner)
    + Held(store.fields_by_owner, DOMAIN store.fields_by_owner)
    + Held(store.objects_by_owner, DOMAIN store.objects_by_owner)

\* a caller invokes DataStore.load_fixtures(fixtures_path) on the store, data
\* being what the file at fixtures_path holds
call_load_fixtures(data) ==
    /\ _data_store # NoneObj
    /\ Loaded(_data_store) < MaxLoads
    /\ fixtures' = data
    /\ _data_store' = load_fixtures(_data_store, data)
    /\ UNCHANGED <<hashSeed, request, response, served, auth_vars, thread_vars>>

InitReload ==
    /\ fixtures \in ReloadData
    /\ hashSeed \in 0..MaxHashSeed
    /\ _data_store = load_fixtures(DataStore, fixtures)
    /\ request = NoRequest
    /\ response = NoResponse
    /\ served = 0
    /\ environ = TestEnviron
    /\ jwks_remote = [up |-> FALSE, body |-> EmptyDict]
    /\ AuthStart

NextReload ==
    \/ \E data \in ReloadData : call_load_fixtures(data)
    \/ Injected /\ LoadCalls

SpecReload == InitReload /\ [][NextReload]_vars

\* SpecThreads: fetch_jwks called by concurrent threads of a deployment
InitThreads ==
    /\ fixtures = FixtureData
    /\ StoreStart
    /\ hashSeed = 0
    /\ environ = ProdEnviron
    /\ jwks_remote \in RemoteStates
    /\ AuthStart

NextThreads ==
    \/ \E t \in Threads :
          \/ fetch_jwks_54(t)
          \/ fetch_jwks_57(t)
          \/ fetch_jwks_61(t)
          \/ fetch_jwks_68(t)
          \/ fetch_jwks_70(t)
          \/ fetch_jwks_71(t)
          \/ fetch_jwks_return(t)
    \/ tick
    \/ remote_change

SpecThreads == InitThreads /\ [][NextThreads]_vars

\* SpecStoreThreads: get_data_store called by concurrent threads, no
\* startup event having run
InitStoreThreads ==
    /\ fixtures \in GeneratedData
    /\ hashSeed = 0
    /\ _data_store = NoneObj
    /\ request = NoRequest
    /\ response = NoResponse
    /\ served = 0
    /\ environ = TestEnviron
    /\ jwks_remote = [up |-> FALSE, body |-> EmptyDict]
    /\ _jwks_cache = EmptyDict
    /\ _jwks_cache_time = 0
    /\ clock = StartTime
    /\ fetches = 0
    /\ auth_result = NoResult
    /\ threads = [t \in Threads |-> Idle]
    /\ fetch_log = {}
    /\ heap = NoHeap

NextStoreThreads ==
    \E t \in Threads :
        \/ get_data_store_221(t)
        \/ get_data_store_222(t)
        \/ get_data_store_223(t)
        \/ load_fixtures_step(t)
        \/ get_data_store_224(t)
        \/ get_data_store_done(t)

SpecStoreThreads == InitStoreThreads /\ [][NextStoreThreads]_vars

\* SpecHttp: the application serving requests, with the test environment
\* and with that of a deployment
InitHttp ==
    /\ fixtures = FixtureData
    /\ StoreStart
    /\ environ \in {TestEnviron, ProdEnviron}
    /\ jwks_remote \in RemoteStates
    /\ AuthStart

NextHttp ==
    \/ startup_event
    \/ \E kind \in {"types", "validators", "fields", "objects"},
          authorization \in Authorizations :
          \/ \E limit \in {0, DefaultLimit}, namespace \in {None, "user"} :
                http_list(kind, limit, 0, namespace, authorization)
          \/ \E id \in {"type_1", "val_4", "field_5", "obj_nonexistent"} :
                http_get(kind, id, authorization)

SpecHttp == InitHttp /\ [][NextHttp]_vars

\* SpecCache: the key cache called on its own, over every environment
NextCache ==
    \/ call_fetch_jwks
    \/ tick
    \/ remote_change

SpecCache == InitAuth /\ [][NextCache]_vars

-----------------------------------------------------------------------------
(* What the claims speak of *)

Kinds == {"types", "validators", "fields", "objects"}

ListOps == [types |-> "list_types", validators |-> "list_validators",
            fields |-> "list_fields", objects |-> "list_objects"]
GetOps == [types |-> "get_type", validators |-> "get_validator",
           fields |-> "get_field", objects |-> "get_object"]
RouteGetOps == [types |-> "GET /types/id", validators |-> "GET /validators/id",
                fields |-> "GET /fields/id", objects |-> "GET /objects/id"]
Labels == [types |-> "Type", validators |-> "Validator",
           fields |-> "Field", objects |-> "Object"]

\* the entities of kind in the fixtures file data
EntitiesIn(data, kind) == {ModelOf(kind, data[kind][i]) : i \in DOMAIN data[kind]}
Entities(kind) == EntitiesIn(fixtures, kind)

\* the visibility rule
Visible(e, owner_id, account_id) ==
    e.owner_id = owner_id \/ e.account_id = account_id

VisibleEntities(kind, owner_id, account_id) ==
    {e \in Entities(kind) : Visible(e, owner_id, account_id)}

\* list_<kind> and get_<kind> by kind
ListOf(kind, store, owner_id, account_id, limit, offset, namespace) ==
    CASE kind = "types" ->
            list_types(store, owner_id, account_id, limit, offset, namespace)
      [] kind = "validators" ->
            list_validators(store, owner_id, account_id, limit, offset, namespace)
      [] kind = "fields" ->
            list_fields(store, owner_id, account_id, limit, offset, namespace)
      [] kind = "objects" ->
            list_objects(store, owner_id, account_id, limit, offset, namespace)

GetResponseOf(kind, store, id, current_user) ==
    CASE kind = "types" -> get_type_response(store, id, current_user)
      [] kind = "validators" -> get_validator_response(store, id, current_user)
      [] kind = "fields" -> get_field_response(store, id, current_user)
      [] kind = "objects" -> get_object_response(store, id, current_user)

\* a sequence without repetition
NoDuplicates(seq) == \A i, j \in DOMAIN seq : i # j => seq[i] # seq[j]

\* the last call was list_<kind> on the store
Listed(kind) == request.op = ListOps[kind]
\* ... with no pagination cutting the result: offset 0, a limit covering the store
ListedWhole(kind) ==
    Listed(kind) /\ request.offset = 0 /\ request.limit >= Len(fixtures[kind])

-----------------------------------------------------------------------------
(* C1: get_<kind>(id, user_id, account_id) returns the loaded entity with  *)
(* that id if and only if its owner_id is user_id or its account_id is     *)
(* account_id; otherwise, and for an id that is not in the store, None.    *)
C1_GetIffVisible ==
    \A kind \in Kinds :
        request.op = GetOps[kind] =>
            LET found == {e \in VisibleEntities(kind, request.owner_id,
                                               request.account_id) :
                            e.id = request.id}
            IN  /\ found # {} => response.value \in found
                /\ found = {} => response.value = NoneObj

\* a get answered with an entity that only the account scope makes visible
C1_Witness ==
    /\ request.op = "get_field"
    /\ response.value # NoneObj
    /\ response.value.owner_id # request.owner_id
    /\ response.value.account_id = request.account_id

-----------------------------------------------------------------------------
(* C2: a get of an id that exists but is not visible to the caller is      *)
(* answered exactly as a get of an id that does not exist: the store       *)
(* returns None and the route answers 404 with a detail made of the        *)
(* requested id alone; so the answer is the one the caller gets from the   *)
(* dataset with every entity it cannot see removed.                        *)

\* the fixtures file without the records (user_id, account_id) cannot see
VisiblePart(data, owner_id, account_id) ==
    [kind \in Kinds |->
        SelectSeq(data[kind], LAMBDA raw : Visible(raw, owner_id, account_id))]

NotFound(kind, id) ==
    [status |-> 404,
     detail |-> <<Labels[kind] \o " with ID '", id, "' not found or access denied">>]

C2_DeniedLooksMissing ==
    \A kind \in Kinds :
        request.op = RouteGetOps[kind] =>
            LET current_user == [user_id |-> request.owner_id,
                                 account_id |-> request.account_id]
                seen == VisibleEntities(kind, request.owner_id, request.account_id)
                reduced == load_fixtures(DataStore,
                               VisiblePart(fixtures, request.owner_id,
                                           request.account_id))
            IN  /\ (\A e \in seen : e.id # request.id) =>
                        response = NotFound(kind, request.id)
                /\ response = GetResponseOf(kind, reduced, request.id, current_user)

\* a route answered 404 for an entity that is in the store
C2_Witness ==
    /\ request.op = "GET /types/id"
    /\ response.status = 404
    /\ request.id \in DOMAIN _data_store.types

-----------------------------------------------------------------------------
(* C3: list_<kind> with offset 0, a limit covering the store and no        *)
(* namespace returns every entity whose owner_id is the caller's user_id   *)
(* or whose account_id is the caller's account_id, once, and nothing else. *)
C3_ListIsUnion ==
    \A kind \in Kinds :
        ListedWhole(kind) /\ request.namespace = None =>
            /\ NoDuplicates(response.value)
            /\ ToSet(response.value) =
                   VisibleEntities(kind, request.owner_id, request.account_id)

\* one listing holds an entity of another user in the caller's account and an
\* entity of the caller in another account
C3_Witness ==
    /\ ListedWhole("types") /\ request.namespace = None
    /\ \E e1, e2 \in ToSet(response.value) :
          /\ e1.owner_id # request.owner_id /\ e1.account_id = request.account_id
          /\ e2.owner_id = request.owner_id /\ e2.account_id # request.account_id

-----------------------------------------------------------------------------
(* C4: for every offset O >= 0 and limit L >= 0, list_<kind> returns the   *)
(* elements at positions [O, O+L) of the caller's visible sequence in its  *)
(* enumeration order: min(L, max(0, n - O)) of them, none when O >= n.     *)

\* the ids of a set of entities
IdsOf(es) == {e.id : e \in es}
\* the entity of es with the id id
ById(es, id) == CHOOSE e \in es : e.id = id

\* the caller's visible entities of kind, in the order their ids are walked
VisibleSeq(kind, owner_id, account_id) ==
    LET seen == VisibleEntities(kind, owner_id, account_id)
        order == set_iter(IdsOf(seen))
    IN  [i \in DOMAIN order |-> ById(seen, order[i])]

C4_ListIsSlice ==
    \A kind \in Kinds :
        Listed(kind) /\ request.namespace = None =>
            LET full == VisibleSeq(kind, request.owner_id, request.account_id)
                n == Len(full)
                O == request.offset
                L == request.limit
                len == Min(L, Max(0, n - O))
            IN  /\ Len(response.value) = len
                /\ \A i \in 1..len : response.value[i] = full[O + i]
                /\ O >= n => response.value = <<>>

\* the page behind the first one cut out of the middle of three visible types
C4_Witness ==
    /\ Listed("types") /\ request.namespace = None
    /\ request.offset = 1 /\ request.limit = 1
    /\ Len(VisibleSeq("types", request.owner_id, request.account_id)) = 3
    /\ response.value =
           <<VisibleSeq("types", request.owner_id, request.account_id)[2]>>

-----------------------------------------------------------------------------
(* C5: for every page size L >= 1 the pages at offsets 0, L, 2L, ... are   *)
(* pairwise disjoint and, put together in that order, are the list with    *)
(* offset 0 and a limit covering the visible set.                          *)

\* page k of size L of the call the request names
PageOf(kind, k, L) ==
    ListOf(kind, _data_store, request.owner_id, request.account_id, L, k * L,
           request.namespace)

RECURSIVE PagesUpTo(_, _, _)
PagesUpTo(kind, k, L) ==
    IF k < 0 THEN <<>> ELSE PagesUpTo(kind, k - 1, L) \o PageOf(kind, k, L)

C5_PagesPartition ==
    \A kind \in Kinds :
        Listed(kind) /\ request.offset = 0 /\ request.limit \in 1..MaxLimit =>
            LET L == request.limit
                whole == ListOf(kind, _data_store, request.owner_id,
                                request.account_id,
                                Max(DefaultLimit, Len(fixtures[kind])), 0,
                                request.namespace)
                last == Len(whole) \div L + 1
            IN  /\ response.value = PageOf(kind, 0, L)
                /\ PagesUpTo(kind, last, L) = whole
                /\ \A j, k \in 0..last :
                      j # k => ToSet(PageOf(kind, j, L)) \cap ToSet(PageOf(kind, k, L)) = {}

\* the first of the two full pages of four visible fields
C5_Witness ==
    /\ Listed("fields") /\ request.offset = 0 /\ request.limit = 2
    /\ request.namespace = None
    /\ Len(VisibleSeq("fields", request.owner_id, request.account_id)) = 4
    /\ Len(response.value) = 2

-----------------------------------------------------------------------------
(* C6: list_fields and list_objects with a non-empty namespace x return,   *)
(* before pagination, exactly the visible entities whose namespace is x;   *)
(* a namespace no visible entity carries gives the empty sequence.         *)
C6_NamespaceFilter ==
    \A kind \in {"fields", "objects"} :
        ListedWhole(kind) /\ Truthy(request.namespace) =>
            /\ NoDuplicates(response.value)
            /\ ToSet(response.value) =
                   {e \in VisibleEntities(kind, request.owner_id, request.account_id) :
                       e.namespace = request.namespace}

\* a listing by namespace that keeps one visible field and drops another
C6_Witness ==
    /\ ListedWhole("fields") /\ Truthy(request.namespace)
    /\ response.value # <<>>
    /\ \E e \in VisibleEntities("fields", request.owner_id, request.account_id) :
          e.namespace # request.namespace

\* a listing by a namespace that no visible object carries
C6_WitnessUnknown ==
    /\ ListedWhole("objects") /\ request.namespace = "nonexistent"
    /\ VisibleEntities("objects", request.owner_id, request.account_id) # {}
    /\ response.value = <<>>

-----------------------------------------------------------------------------
(* C7: for list_types and list_validators the namespace is a no-op: the    *)
(* call returns the sequence the same call returns with no namespace.      *)
C7_NamespaceIsNoOp ==
    \A kind \in {"types", "validators"} :
        Listed(kind) =>
            response.value =
                ListOf(kind, _data_store, request.owner_id, request.account_id,
                       request.limit, request.offset, None)

-----------------------------------------------------------------------------
(* C8: with the shipped fixtures loaded, listing with the default          *)
(* pagination gives 3/3/4/2 types/validators/fields/objects to             *)
(* (user_test123, acct_test123), 1/1/1/1 to (user_other456,                *)
(* acct_other456), none to an identity that matches no owner and no        *)
(* account; no tenant is given an entity of the other.                     *)
FixtureCounts ==
    [user_test123 |-> [types |-> 3, validators |-> 3, fields |-> 4, objects |-> 2],
     user_other456 |-> [types |-> 1, validators |-> 1, fields |-> 1, objects |-> 1],
     user_nonexistent |-> [types |-> 0, validators |-> 0, fields |-> 0, objects |-> 0]]

\* the account of each of the three identities
AccountOf ==
    [user_test123 |-> "acct_test123", user_other456 |-> "acct_other456",
     user_nonexistent |-> "acct_nonexistent"]

C8_FixtureCounts ==
    \A kind \in Kinds :
        /\ fixtures = FixtureData
        /\ Listed(kind) /\ request.limit = DefaultLimit /\ request.offset = 0
        /\ request.namespace = None
        /\ request.account_id = AccountOf[request.owner_id]
        => /\ Len(response.value) = FixtureCounts[request.owner_id][kind]
           /\ \A i \in DOMAIN response.value :
                 /\ response.value[i].owner_id = request.owner_id
                 /\ response.value[i].account_id = request.account_id

\* the four fields of user_test123 listed
C8_Witness ==
    /\ fixtures = FixtureData
    /\ Listed("fields") /\ request.limit = DefaultLimit /\ request.offset = 0
    /\ request.namespace = None
    /\ request.owner_id = "user_test123" /\ request.account_id = "acct_test123"
    /\ Len(response.value) = 4

-----------------------------------------------------------------------------
(* C9: when the require-authentication flag is false, verification         *)
(* returns the fixed identity user_test123 / acct_test123 /                *)
(* test@example.com for every credential, empty and malformed ones         *)
(* included: the result does not depend on the credential.                 *)

\* the configuration loads and its require_auth flag is false
Bypass == get_clerk_config.ok /\ get_clerk_config.value.require_auth = "false"

C9_BypassFixedIdentity ==
    Bypass =>
        /\ \A t \in Tokens :
              /\ verify_token(Globals, t).ret =
                     Ok([sub |-> "user_test123", org_id |-> "acct_test123",
                         email |-> "test@example.com"])
              /\ get_current_user(Globals, t).ret =
                     Ok([user_id |-> "user_test123", account_id |-> "acct_test123",
                         email |-> "test@example.com"])
        /\ auth_result.fn = "verify_token" =>
              auth_result.ret =
                  Ok([sub |-> "user_test123", org_id |-> "acct_test123",
                      email |-> "test@example.com"])
        /\ auth_result.fn = "get_current_user" =>
              auth_result.ret =
                  Ok([user_id |-> "user_test123", account_id |-> "acct_test123",
                      email |-> "test@example.com"])

\* the empty credential verified to the fixed identity while a key set is
\* configured and served
C9_Witness ==
    /\ Bypass
    /\ environ.CLERK_JWKS_URL = JwksUrl /\ jwks_remote.up
    /\ auth_result.fn = "verify_token"
    /\ auth_result.arg = [header_ok |-> FALSE, raw |-> ""]
    /\ auth_result.ret.ok /\ auth_result.ret.value.sub = "user_test123"

-----------------------------------------------------------------------------
(* C10: in bypass mode the key cache is never consulted: over any sequence *)
(* of verification calls no key-set fetch is issued, and the cached key    *)
(* set and its fetch timestamp stay as they were.                          *)
C10_BypassLeavesCache ==
    Bypass =>
        /\ fetches = 0
        /\ _jwks_cache = EmptyDict
        /\ _jwks_cache_time = 0
        /\ auth_result # NoResult => ~auth_result.consulted

\* a well-formed token verified in bypass mode, after time has passed, with
\* a key set configured and served
C10_Witness ==
    /\ Bypass
    /\ environ.CLERK_JWKS_URL = JwksUrl /\ environ.CLERK_ISSUER = Issuer
    /\ jwks_remote.up /\ clock > StartTime
    /\ auth_result.fn = "verify_token" /\ auth_result.arg = GoodToken
    /\ fetches = 0

-----------------------------------------------------------------------------
(* C11: bypass mode is entered only when the require-authentication flag   *)
(* is explicitly set to false: with REQUIRE_AUTH unset, set to true or set *)
(* to any other value, credentials are verified and the fixed test         *)
(* identity is never returned.                                             *)

\* REQUIRE_AUTH is set, and set to false
ExplicitlyFalse == environ.REQUIRE_AUTH # None /\ Lower(environ.REQUIRE_AUTH) = "false"

\* the outcome is the fixed test identity, as claims or as user
IsTestIdentity(ret) ==
    /\ ret.ok
    /\ \/ ret.value = [sub |-> "user_test123", org_id |-> "acct_test123",
                       email |-> "test@example.com"]
       \/ ret.value = [user_id |-> "user_test123", account_id |-> "acct_test123",
                       email |-> "test@example.com"]

C11_BypassOnlyWhenExplicit ==
    ~ExplicitlyFalse /\ auth_result.fn \in {"verify_token", "get_current_user"} =>
        ~IsTestIdentity(auth_result.ret)

-----------------------------------------------------------------------------
(* Error kinds of the verification, as they reach the caller               *)

\* the configuration loads and requires authentication
RequireAuth == get_clerk_config.ok /\ get_clerk_config.value.require_auth = "true"

\* the kind an exception is reported under: its status code and the fixed
\* head of its detail
KindOf(exc) ==
    IF exc.type # "HTTPException" THEN exc.type
    ELSE IF exc.status_code = 503 THEN "KeySourceUnavailable"
    ELSE IF exc.status_code # 401 THEN "Other"
    ELSE CASE Head(exc.detail) = "Unable to find signing key" -> "MissingSigningKey"
           [] Head(exc.detail) = "Invalid token header: " -> "MalformedCredential"
           [] Head(exc.detail) = "Token has expired" -> "ExpiredCredential"
           [] Head(exc.detail) = "Invalid token issuer" -> "InvalidIssuer"
           [] OTHER -> "AuthenticationFailed"

\* the token names RS256 and was signed with the key material signing_key
SignedWith(t, signing_key) == t.header.alg = "RS256" /\ t.signed_with = signing_key
\* the token carries an expiry that has passed
Expired(t) == "exp" \in DOMAIN t.payload /\ t.payload.exp <= clock
\* the token carries an issuer other than the configured one
WrongIssuer(t) == "iss" \in DOMAIN t.payload /\ t.payload.iss # Issuer

-----------------------------------------------------------------------------
(* C12: when authentication is required and the signing key is found, a    *)
(* credential whose signature does not verify is refused as                *)
(* AuthenticationFailed, a correctly signed one past its expiry as         *)
(* ExpiredCredential, a correctly signed unexpired one with another        *)
(* issuer as InvalidIssuer: three different kinds, none with an identity.  *)
C12_DecodeFailureKinds ==
    RequireAuth =>
        \A t \in Tokens :
            LET key == get_signing_key(Globals, t).ret
                out == verify_token(Globals, t).ret
                user == get_current_user(Globals, t).ret
            IN  key.ok =>
                /\ t.header.alg = "RS256" /\ t.signed_with # key.value =>
                      /\ out = Raise(HTTPException(401,
                                 <<"Invalid token: ", "InvalidSignatureError">>))
                      /\ KindOf(out.exc) = "AuthenticationFailed"
                      /\ user = out
                /\ SignedWith(t, key.value) /\ Expired(t) =>
                      /\ out = Raise(HTTPException(401, <<"Token has expired">>))
                      /\ KindOf(out.exc) = "ExpiredCredential"
                      /\ user = out
                /\ SignedWith(t, key.value) /\ ~Expired(t) /\ WrongIssuer(t) =>
                      /\ out = Raise(HTTPException(401, <<"Invalid token issuer">>))
                      /\ KindOf(out.exc) = "InvalidIssuer"
                      /\ user = out

\* a token that was good when issued, verified after its expiry
C12_Witness ==
    /\ RequireAuth
    /\ auth_result.fn = "verify_token" /\ auth_result.arg = GoodToken
    /\ ~auth_result.ret.ok /\ KindOf(auth_result.ret.exc) = "ExpiredCredential"

\* a forged token refused
C12_WitnessSignature ==
    /\ RequireAuth
    /\ auth_result.fn = "get_current_user"
    /\ auth_result.arg = [GoodToken EXCEPT !.signed_with = "forged"]
    /\ auth_result.ret =
           Raise(HTTPException(401, <<"Invalid token: ", "InvalidSignatureError">>))

\* a token of another issuer refused
C12_WitnessIssuer ==
    /\ RequireAuth
    /\ auth_result.fn = "verify_token"
    /\ auth_result.arg = [GoodToken EXCEPT !.payload.iss = "https://evil.example"]
    /\ ~auth_result.ret.ok /\ KindOf(auth_result.ret.exc) = "InvalidIssuer"

-----------------------------------------------------------------------------
(* C13: when authentication is required, a credential whose kid equals no  *)
(* entry of the current key set makes verify fail with MissingSigningKey,  *)
(* and that kind is what reaches the caller of verify: it can be told from *)
(* AuthenticationFailed and from MalformedCredential.                      *)

\* the token's header parses and no key of the key set keys carries its kid
KidUnknown(t, jwks) ==
    /\ t.header_ok
    /\ FindKey(GetAttr(jwks, "keys", <<>>), GetAttr(t.header, "kid", None)) = NoneObj

\* a step in which verify_token is called and answers
VerifyStep == auth_result' # auth_result /\ auth_result'.fn = "verify_token"

C13_MissingKeyReachesCaller ==
    [][RequireAuth /\ VerifyStep =>
        LET jwks == fetch_jwks(Globals, clock).ret
            out == auth_result'.ret
        IN  jwks.ok /\ jwks.value # EmptyDict /\ KidUnknown(auth_result'.arg, jwks.value) =>
            /\ ~out.ok
            /\ KindOf(out.exc) = "MissingSigningKey"
            /\ \A m \in MalformedTokens :
                  KindOf(verify_token(Globals, m).ret.exc) # KindOf(out.exc)]_vars

-----------------------------------------------------------------------------
(* C14: when authentication is required, a verify call that needs the key  *)
(* set while the cache is empty or stale and the remote fetch fails is     *)
(* answered with KeySourceUnavailable, the 503 of the key cache, and with  *)
(* no other kind.                                                          *)
C14_KeySourceUnavailableReachesCaller ==
    [][RequireAuth /\ VerifyStep =>
        LET jwks == fetch_jwks(Globals, clock).ret
            out == auth_result'.ret
        IN  ~jwks.ok /\ KindOf(jwks.exc) = "KeySourceUnavailable" =>
            /\ ~out.ok
            /\ out.exc.status_code = 503
            /\ KindOf(out.exc) = "KeySourceUnavailable"]_vars

-----------------------------------------------------------------------------
(* C15: on successful verification the claims map to the caller identity:  *)
(* user_id is the subject claim; account_id is the organization claim when *)
(* present and otherwise the subject claim; email is the email claim when  *)
(* present and otherwise null; a verified credential with no subject claim *)
(* yields an authentication failure and no identity.                       *)

\* a step in which get_current_user is called and answers
UserStep == auth_result' # auth_result /\ auth_result'.fn = "get_current_user"

\* the claim is in the claims
Present(claims, name) == name \in DOMAIN claims
\* the claim is in the claims and its value is not empty
NonEmpty(claims, name) == Present(claims, name) /\ claims[name] # ""

\* the refusal of claims without a subject
MissingUser(ret) ==
    /\ ~ret.ok
    /\ ret.exc = HTTPException(401, <<"Invalid token claims: missing user_id">>)
    /\ KindOf(ret.exc) = "AuthenticationFailed"

\* C15 as stated: presence of a claim decides
C15_ClaimsToIdentity ==
    [][UserStep =>
        LET verified == verify_token(Globals, auth_result'.arg).ret
            claims == verified.value
        IN  verified.ok =>
            IF ~Present(claims, "sub") THEN MissingUser(auth_result'.ret)
            ELSE auth_result'.ret =
                     Ok([user_id |-> claims.sub,
                         account_id |-> IF Present(claims, "org_id")
                                        THEN claims.org_id ELSE claims.sub,
                         email |-> IF Present(claims, "email")
                                   THEN claims.email ELSE None])]_vars

\* C15 as amended: an empty subject or organization claim counts as absent
C15_ClaimsToIdentityNonEmpty ==
    [][UserStep =>
        LET verified == verify_token(Globals, auth_result'.arg).ret
            claims == verified.value
        IN  verified.ok =>
            IF ~NonEmpty(claims, "sub") THEN MissingUser(auth_result'.ret)
            ELSE auth_result'.ret =
                     Ok([user_id |-> claims.sub,
                         account_id |-> IF NonEmpty(claims, "org_id")
                                        THEN claims.org_id ELSE claims.sub,
                         email |-> IF Present(claims, "email")
                                   THEN claims.email ELSE None])]_vars

\* a verified token with a subject and nothing else becomes its own account
C15_Witness ==
    /\ RequireAuth
    /\ auth_result.fn = "get_current_user"
    /\ auth_result.arg.header_ok
    /\ DOMAIN auth_result.arg.payload = {"sub", "iss", "exp"}
    /\ auth_result.ret = Ok([user_id |-> "user_a", account_id |-> "user_a",
                             email |-> None])

\* a verified token without a subject is refused
C15_WitnessNoSubject ==
    /\ RequireAuth
    /\ auth_result.fn = "get_current_user"
    /\ auth_result.arg.header_ok
    /\ ~Present(auth_result.arg.payload, "sub")
    /\ MissingUser(auth_result.ret)

-----------------------------------------------------------------------------
(* C16: after a successful fetch at time t0, every fetch_jwks call at a    *)
(* time t with t - t0 below JWKS_CACHE_TTL returns the same key set and    *)
(* sends no request; a call made once the TTL has elapsed sends exactly    *)
(* one request and, when it is answered, replaces the cached key set and   *)
(* the timestamp.                                                          *)

\* a key set was fetched and is younger than the TTL
Fresh == _jwks_cache # EmptyDict /\ (clock - _jwks_cache_time) < JWKS_CACHE_TTL
\* a key set was fetched and the TTL has elapsed since
Stale == _jwks_cache # EmptyDict /\ (clock - _jwks_cache_time) >= JWKS_CACHE_TTL

\* the last call of fetch_jwks answered with a key set
Fetched ==
    /\ auth_result.fn = "fetch_jwks"
    /\ auth_result.ret.ok /\ auth_result.ret.value # EmptyDict

C16_WitnessRefetch ==
    /\ Fetched
    /\ fetches = 2
    /\ auth_result.at >= StartTime + JWKS_CACHE_TTL
    /\ _jwks_cache_time = auth_result.at

-----------------------------------------------------------------------------
(* C17: when the cached key set is stale and the request for a new one     *)
(* fails, fetch_jwks fails on that call with KeySourceUnavailable and does *)
(* not return the key set cached before, although there is one.            *)
C17_NoStaleFallback ==
    LET called == fetch_jwks(Globals, clock)
    IN  /\ Stale /\ ~jwks_remote.up =>
              /\ ~called.ret.ok
              /\ called.ret.exc.status_code = 503
              /\ KindOf(called.ret.exc) = "KeySourceUnavailable"
        /\ auth_result.fn = "fetch_jwks" /\ auth_result.ret.ok =>
              \/ auth_result.ret.value = EmptyDict
              \/ auth_result.at - _jwks_cache_time < JWKS_CACHE_TTL

\* a call that found a stale key set and the identity provider down
C17_Witness ==
    /\ auth_result.fn = "fetch_jwks" /\ auth_result.at = clock
    /\ ~auth_result.ret.ok /\ KindOf(auth_result.ret.exc) = "KeySourceUnavailable"
    /\ Stale /\ ~jwks_remote.up

-----------------------------------------------------------------------------
(* C20: KeySourceUnavailable is recoverable: after a fetch_jwks call has   *)
(* failed because the identity provider did not answer, the first call     *)
(* made once it answers sends a request, succeeds and leaves the newly     *)
(* fetched key set in the cache.                                           *)

\* the last call of fetch_jwks failed for want of an answer
Unavailable ==
    /\ auth_result.fn = "fetch_jwks"
    /\ ~auth_result.ret.ok /\ KindOf(auth_result.ret.exc) = "KeySourceUnavailable"

C20_Recoverable ==
    Unavailable /\ jwks_remote.up =>
        LET called == fetch_jwks(Globals, clock)
        IN  /\ called.g.fetches = fetches + 1
            /\ called.ret = Ok(jwks_remote.body)
            /\ called.g._jwks_cache = jwks_remote.body
            /\ called.g._jwks_cache_time = clock

\* a second request, sent at the time of the first, was answered: the first
\* had failed
C20_Witness ==
    /\ Fetched
    /\ fetches = 2 /\ auth_result.at = StartTime
    /\ _jwks_cache = jwks_remote.body /\ _jwks_cache_time = StartTime

\* a stale key set, a failed request, and the identity provider back
C20_WitnessStale ==
    /\ Unavailable /\ jwks_remote.up /\ Stale /\ fetches = 2

-----------------------------------------------------------------------------
(* C18: the dataset load is all-or-nothing: if any record of any of the    *)
(* four sequences is malformed, the load fails as a whole and the store    *)
(* holds none of the records of that load afterwards, neither in a primary *)
(* map nor in an index.                                                    *)

\* some record of the fixtures file is malformed
HasMalformed(data) ==
    \E kind \in Kinds : \E i \in DOMAIN data[kind] :
        ~({"id", "owner_id", "account_id"} \subseteq DOMAIN data[kind][i])

\* the store holds no record and no index entry
HoldsNothing(store) == \A attribute \in DOMAIN store : store[attribute] = EmptyDict

C18_LoadAllOrNothing ==
    HasMalformed(fixtures) =>
        /\ load_fixtures_raises(fixtures)
        /\ _data_store # NoneObj => HoldsNothing(_data_store)
        /\ \A kind \in Kinds : Listed(kind) => response.value = <<>>

-----------------------------------------------------------------------------
(* C19: under any interleaving of concurrent fetch_jwks calls no caller    *)
(* observes a torn update of the key cache: wherever the cache can be      *)
(* read, the stored key set and the stored timestamp belong to the same    *)
(* fetch, never the new key set with the old timestamp nor the reverse.    *)

\* key set and timestamp are as at the start, or as one request obtained them
SameFetch(pair) == pair = <<EmptyDict, 0>> \/ pair \in fetch_log

C19_NoTornUpdate ==
    \A t \in Threads :
        /\ threads[t].pc = "57" => SameFetch(<<_jwks_cache, _jwks_cache_time>>)
        /\ threads[t].read # <<>> => SameFetch(threads[t].read)

-----------------------------------------------------------------------------
(* C22: when authentication is required, verify parses the credential      *)
(* header before it calls the key cache: a credential whose header cannot  *)
(* be parsed fails with MalformedCredential and no key-set fetch is        *)
(* issued, whatever the cache holds and also when the key source is down.  *)
C22_HeaderParsedBeforeKeyCache ==
    [][RequireAuth /\ VerifyStep /\ ~auth_result'.arg.header_ok =>
        /\ ~auth_result'.consulted
        /\ fetches' = fetches
        /\ ~auth_result'.ret.ok
        /\ KindOf(auth_result'.ret.exc) = "MalformedCredential"]_vars

-----------------------------------------------------------------------------
(* C28: when authentication is required, a verify call that fails because  *)
(* the credential's kid is absent from a non-empty cached key set still    *)
(* inside its TTL window issues no fetch and leaves the cached key set and *)
(* its timestamp unchanged: a key miss forces no refresh before the TTL    *)
(* has elapsed.                                                            *)
C28_KeyMissForcesNoRefresh ==
    [][RequireAuth /\ VerifyStep /\ Fresh /\ KidUnknown(auth_result'.arg, _jwks_cache) =>
        /\ ~auth_result'.ret.ok
        /\ auth_result'.consulted
        /\ fetches' = fetches
        /\ _jwks_cache' = _jwks_cache
        /\ _jwks_cache_time' = _jwks_cache_time]_vars

\* the remote key set has rotated to kid_2, the cached one still names kid_1
\* only, and a token signed with the new key has just been refused
C28_Witness ==
    /\ RequireAuth
    /\ Fresh
    /\ _jwks_cache = [keys |-> <<Key1>>]
    /\ jwks_remote = [up |-> TRUE, body |-> [keys |-> <<Key2>>]]
    /\ auth_result.fn = "verify_token"
    /\ auth_result.arg.header_ok
    /\ auth_result.arg.header = [alg |-> "RS256", kid |-> "kid_2"]
    /\ ~auth_result.ret.ok
    /\ fetches = 1

-----------------------------------------------------------------------------
(* C30: when authentication is required, a credential whose header carries *)
(* no kid never selects a signing key: whatever the key set holds, an      *)
(* entry without a kid included, the key lookup ends in MissingSigningKey  *)
(* and verify fails.                                                       *)

\* the token's header parses and carries no kid
NoKid(t) == t.header_ok /\ "kid" \notin DOMAIN t.header

C30_NoKidSelectsNoKey ==
    [][RequireAuth /\ VerifyStep /\ NoKid(auth_result'.arg) =>
        LET jwks == fetch_jwks(Globals, clock).ret
            key == get_signing_key(Globals, auth_result'.arg).ret
        IN  jwks.ok /\ jwks.value # EmptyDict =>
            /\ ~key.ok
            /\ KindOf(key.exc) = "MissingSigningKey"
            /\ ~auth_result'.ret.ok]_vars

-----------------------------------------------------------------------------
(* C29: across any interleaving of concurrent fetch_jwks calls the stored  *)
(* fetch timestamp never decreases: once a fetch that started at time t is *)
(* recorded, no later write records a timestamp earlier than t.            *)
C29_TimestampNeverDecreases ==
    [][_jwks_cache_time' >= _jwks_cache_time]_vars

-----------------------------------------------------------------------------
(* C23: for list_fields and list_objects a namespace supplied as the empty *)
(* string is a filter like any other supplied value: the result keeps only *)
(* the visible entities whose namespace is the empty string, and visible   *)
(* entities with a non-empty namespace are left out.                       *)
C23_EmptyNamespaceFilters ==
    \A kind \in {"fields", "objects"} :
        ListedWhole(kind) /\ request.namespace = "" =>
            ToSet(response.value) =
                {e \in VisibleEntities(kind, request.owner_id, request.account_id) :
                    e.namespace = ""}

-----------------------------------------------------------------------------
(* C24: after the load no list or get call of any kind changes the store:  *)
(* the four primary maps and the eight owner and account indexes are the   *)
(* same before and after every call, also when the call names an owner_id  *)
(* or account_id that has no index entry (no empty entry is created).      *)

\* a step in which a list or get call is served
QueryStep == served' = served + 1

C24_QueriesLeaveStore ==
    [][QueryStep =>
        /\ _data_store' = _data_store
        /\ \A attribute \in DOMAIN DataStore :
              DOMAIN _data_store'[attribute] = DOMAIN _data_store[attribute]]_vars

\* a loaded store listed by an identity no index knows
C24_Witness ==
    \E kind \in Kinds :
        /\ Listed(kind)
        /\ request.owner_id = "user_nonexistent"
        /\ request.account_id = "acct_nonexistent"
        /\ _data_store[kind] # EmptyDict
        /\ "user_nonexistent" \notin DOMAIN _data_store[ByOwner[kind]]
        /\ "acct_nonexistent" \notin DOMAIN _data_store[ByAccount[kind]]

\* a loaded store asked for an id it does not hold
C24_WitnessGet ==
    /\ request.op = "get_field" /\ request.id = "field_nonexistent"
    /\ _data_store.fields # EmptyDict
    /\ "field_nonexistent" \notin DOMAIN _data_store.fields

-----------------------------------------------------------------------------
(* C26: if the load of the first get_data_store call fails, no later       *)
(* get_data_store call returns a store silently: a later call fails again  *)
(* or loads again, and the partially loaded global store is never handed   *)
(* to a request.                                                           *)
C26_FailedLoadNeverServed ==
    load_fixtures_raises(fixtures) =>
        /\ request = NoRequest
        /\ response = NoResponse

-----------------------------------------------------------------------------
(* C27: index consistency: after any sequence of load_fixtures calls on    *)
(* one store, loads that reuse an id under another owner_id or account_id  *)
(* included, every id the by-owner index holds under key o is that of a    *)
(* primary-map entity whose owner_id is o, and every id the by-account     *)
(* index holds under key a is that of an entity whose account_id is a;     *)
(* hence list never returns to a caller an entity get denies that caller.  *)

\* every id of the index is in the primary map, with the key as its attribute
IndexConsistent(store, kind, index, attribute) ==
    \A key \in DOMAIN store[index] :
        \A i \in DOMAIN store[index][key] :
            LET id == store[index][key][i]
            IN  /\ id \in DOMAIN store[kind]
                /\ store[kind][id][attribute] = key

\* get_<kind> by kind
GetOf(kind, store, id, owner_id, account_id) ==
    CASE kind = "types" -> get_type(store, id, owner_id, account_id)
      [] kind = "validators" -> get_validator(store, id, owner_id, account_id)
      [] kind = "fields" -> get_field(store, id, owner_id, account_id)
      [] kind = "objects" -> get_object(store, id, owner_id, account_id)

C27_IndexConsistency ==
    \A kind \in Kinds :
        /\ IndexConsistent(_data_store, kind, ByOwner[kind], "owner_id")
        /\ IndexConsistent(_data_store, kind, ByAccount[kind], "account_id")
        /\ \A owner_id \in CallerUserIds, account_id \in CallerAccountIds :
              LET listed == ListOf(kind, _data_store, owner_id, account_id,
                                   DefaultLimit, 0, None)
              IN  \A i \in DOMAIN listed :
                      GetOf(kind, _data_store, listed[i].id, owner_id, account_id)
                          = listed[i]

-----------------------------------------------------------------------------
(* C25: under any interleaving of concurrent get_data_store calls no       *)
(* caller is handed a store whose load is not complete: every store        *)
(* get_data_store returns holds, when it is returned, all records of all   *)
(* four kinds together with their index entries.                           *)

\* the store holds every record of the fixtures file, in the primary map and
\* in both indexes of its kind
Complete(store) ==
    /\ store # NoneObj
    /\ \A i \in DOMAIN Records(fixtures) :
          LET kind == Records(fixtures)[i][1]
              obj == ModelOf(kind, Records(fixtures)[i][2])
          IN  /\ obj.id \in DOMAIN store[kind]
              /\ obj.owner_id \in DOMAIN store[ByOwner[kind]]
              /\ obj.id \in ToSet(store[ByOwner[kind]][obj.owner_id])
              /\ obj.account_id \in DOMAIN store[ByAccount[kind]]
              /\ obj.id \in ToSet(store[ByAccount[kind]][obj.account_id])

C25_NoPartialStoreHandedOut ==
    \A t \in Threads : threads[t].pc = "returned" => Complete(threads[t].got)

-----------------------------------------------------------------------------
(* C21: a request to any list or get endpoint that carries no bearer       *)
(* credential is rejected with 403 and returns no entity data, also in     *)
(* bypass mode (REQUIRE_AUTH=false); entity data is returned only for      *)
(* requests for which the verifier produced a caller identity.             *)

\* the last step served a request to an endpoint
Requested == request.op \in {"GET /api/mock/<kind>", "GET /api/mock/<kind>/<id>"}

\* the request carried a bearer credential
HasBearer(r) ==
    /\ r.authorization # NoneObj
    /\ Lower(r.authorization.scheme) = "bearer"
    /\ r.authorization.credentials # [header_ok |-> FALSE, raw |-> ""]

C21_WitnessData ==
    /\ Requested
    /\ Bypass
    /\ HasBearer(request)
    /\ response.status = 200
    /\ request.op = "GET /api/mock/<kind>" /\ Len(response.body) = 3

====
